---- MODULE Spec2Model ----
(***************************************************************************)
(* The message-watch pipeline of the PAPI cog: WatchListener               *)
(* (src/papi/watch/listener.py) with its cooldown map, access gate,        *)
(* substitution engine and on_message orchestrator.                        *)
(*                                                                         *)
(* Time is counted in abstract units from datetime.min (= 0): the clock    *)
(* reads NowStart when the process starts and never exceeds MaxTime.       *)
(* watch_cooldown ranges over values timedelta(seconds=...) accepts.       *)
(***************************************************************************)
EXTENDS Integers, Sequences, FiniteSets, TLC

VARIABLES cooldowns, clock, config, tasks, admitted, gate, cc, eng, fn, cmd

vars == <<cooldowns, clock, config, tasks, admitted, gate, cc, eng, fn, cmd>>

(***************************************************************************)
(* Bounds of the model                                                     *)
(***************************************************************************)
NumUsers == 2
NumTasks == 2
NowStart == 3
TimeSpan == 2

MaxTime == NowStart + TimeSpan
UserIds == 1..NumUsers
Tasks == 1..NumTasks
Times == NowStart..MaxTime
ChannelIds == {10, 11}

\* default_time(): datetime.min, the value of a missing cooldowns key
DatetimeMin == 0

\* a cooldown longer than the time elapsed since datetime.min
HugeCooldown == MaxTime + 1

(***************************************************************************)
(* Strings: the conversions the code applies, over the strings in use      *)
(***************************************************************************)
\* str.lower()
Lower(s) ==
    CASE s = "Admin" -> "admin"
      [] s = "Server:Online" -> "server:online"
      [] s = "SERVER" -> "server"
      [] s = "Server" -> "server"
      [] s = "Bogus" -> "bogus"
      [] s = "SERVER:tps" -> "server:tps"
      [] s = "GLOBAL" -> "global"
      [] s = "Channels" -> "channels"
      [] s = "Thread" -> "thread"
      [] OTHER -> s

\* str.strip()
StripStr(s) ==
    CASE s = " " -> ""
      [] s = " admin" -> "admin"
      [] OTHER -> s

\* str.isdigit()
IsDigit(s) == s \in {"5", "9"}

\* int(str) of a digit string
ToInt(s) == IF s = "5" THEN 5 ELSE 9

\* x in list
InList(x, list) == \E i \in 1..Len(list) : list[i] = x

(***************************************************************************)
(* Roles.  allowed_roles is a comma separated string, held here as the     *)
(* sequence of its comma separated fields ("" is the one empty field).     *)
(***************************************************************************)
RoleAdmin == [id |-> 5, name |-> "Admin"]
RoleMod == [id |-> 9, name |-> "mod"]
RoleSets == {{}, {RoleAdmin}, {RoleMod}}

AllowedRolesStrings == {<<"">>, <<"5">>, <<"9", " admin">>}

\* not (s and s.strip()): the string is empty or whitespace only
IsBlankString(fields) == Len(fields) = 1 /\ StripStr(fields[1]) = ""

\* RoleHelper.parse_allowed_roles: an int for a digit field, the stripped name
\* otherwise (isint tells the two apart, as isinstance(allowed, int) does)
parse_allowed_roles(fields) ==
    IF IsBlankString(fields) THEN <<>>
    ELSE [i \in 1..Len(fields) |->
            LET role == StripStr(fields[i])
            IN  IF IsDigit(role)
                THEN [isint |-> TRUE, id |-> ToInt(role)]
                ELSE [isint |-> FALSE, name |-> role]]

\* variant: role names are compared as written, letter case included
HasRoleCaseSensitive(allowed_roles, roles) ==
    \E i \in 1..Len(allowed_roles) :
        LET allowed == allowed_roles[i]
        IN  IF allowed.isint
            THEN \E r \in roles : r.id = allowed.id
            ELSE \E r \in roles : r.name = allowed.name

\* the has_role loop of should_process_watch
HasRole(allowed_roles, roles) ==
    \E i \in 1..Len(allowed_roles) :
        LET allowed == allowed_roles[i]
        IN  IF allowed.isint
            THEN \E r \in roles : r.id = allowed.id
            ELSE \E r \in roles : Lower(r.name) = Lower(allowed.name)

(***************************************************************************)
(* The cooldown map: a defaultdict(default_time).  Reading a missing key   *)
(* stores the default under it and returns it.                             *)
(***************************************************************************)
EmptyDict == [u \in {} |-> DatetimeMin]

DictGet(cd, k) ==
    IF k \in DOMAIN cd THEN cd
    ELSE [u \in DOMAIN cd \cup {k} |-> IF u = k THEN DatetimeMin ELSE cd[u]]

\* the last use the code sees for a user, entry or default
LastUse(cd, u) == IF u \in DOMAIN cd THEN cd[u] ELSE DatetimeMin

\* the map as the code reads it: every user's last use
CooldownView(cd) == [u \in UserIds |-> LastUse(cd, u)]

\* variants of the comparison: one second short, and boundary included
OnCooldownShort(now, last_use, cooldown) == now - last_use < cooldown - 1

OnCooldownInclusive(now, last_use, cooldown) == now - last_use <= cooldown

\* now - last_use < timedelta(seconds=cooldown)
OnCooldown(now, last_use, cooldown) == now - last_use < cooldown

\* variant: the new timestamp is stored on a rejection too
check_cooldown_CommitOnReject(cd, user_id, cooldown, now) ==
    IF cooldown <= 0
    THEN [ok |-> TRUE, cooldowns |-> cd]
    ELSE LET cd1 == DictGet(cd, user_id)
             last_use == cd1[user_id]
         IN  [ok |-> ~OnCooldown(now, last_use, cooldown),
              cooldowns |-> [cd1 EXCEPT ![user_id] = now]]

\* variant: the check passes without storing the timestamp
check_cooldown_NoCommit(cd, user_id, cooldown, now) ==
    IF cooldown <= 0
    THEN [ok |-> TRUE, cooldowns |-> cd]
    ELSE LET cd1 == DictGet(cd, user_id)
             last_use == cd1[user_id]
         IN  [ok |-> ~OnCooldown(now, last_use, cooldown), cooldowns |-> cd1]

\* variant: the map is read before the test for a disabled cooldown
check_cooldown_ReadFirst(cd, user_id, cooldown, now) ==
    LET cd1 == DictGet(cd, user_id)
        last_use == cd1[user_id]
    IN  IF cooldown <= 0
        THEN [ok |-> TRUE, cooldowns |-> cd1]
        ELSE IF OnCooldown(now, last_use, cooldown)
             THEN [ok |-> FALSE, cooldowns |-> cd1]
             ELSE [ok |-> TRUE, cooldowns |-> [cd1 EXCEPT ![user_id] = now]]

\* variant: one window for all users, the latest use of anyone
check_cooldown_SharedWindow(cd, user_id, cooldown, now) ==
    IF cooldown <= 0
    THEN [ok |-> TRUE, cooldowns |-> cd]
    ELSE LET cd1 == DictGet(cd, user_id)
             last_use == CHOOSE x \in {cd1[u] : u \in DOMAIN cd1} :
                             \A u \in DOMAIN cd1 : cd1[u] <= x
         IN  IF OnCooldown(now, last_use, cooldown)
             THEN [ok |-> FALSE, cooldowns |-> cd1]
             ELSE [ok |-> TRUE, cooldowns |-> [cd1 EXCEPT ![user_id] = now]]

\* WatchListener.check_cooldown: the result and the map it leaves
check_cooldown(cd, user_id, cooldown, now) ==
    IF cooldown <= 0
    THEN [ok |-> TRUE, cooldowns |-> cd]
    ELSE LET cd1 == DictGet(cd, user_id)
             last_use == cd1[user_id]
         IN  IF OnCooldown(now, last_use, cooldown)
             THEN [ok |-> FALSE, cooldowns |-> cd1]
             ELSE [ok |-> TRUE, cooldowns |-> [cd1 EXCEPT ![user_id] = now]]

(***************************************************************************)
(* Access gate: WatchListener.should_process_watch.  `checked` lists the   *)
(* checks the call evaluated, in order.                                    *)
(***************************************************************************)
GateReturn(ok, reason, cd, checked) ==
    [ok |-> ok, reason |-> reason, cooldowns |-> cd, checked |-> checked]

\* the role requirement applies
RolesRequired(message, settings) ==
    /\ settings.watch_require_roles
    /\ message.guild
    /\ ~IsBlankString(settings.allowed_roles)

\* lines 164-168: the cooldown check ends the gate
CooldownStage(cd, message, settings, now, checked) ==
    LET r == check_cooldown(cd, message.author, settings.watch_cooldown, now)
        chk == Append(checked, "cooldown")
    IN  IF ~r.ok
        THEN GateReturn(FALSE, "User on cooldown", r.cooldowns, chk)
        ELSE GateReturn(TRUE, "OK", r.cooldowns, chk)

\* variant: the cooldown check runs before the role requirement
RoleStageCooldownFirst(cd, message, settings, now, checked) ==
    LET r == check_cooldown(cd, message.author, settings.watch_cooldown, now)
        chk == Append(checked, "cooldown")
    IN  IF ~r.ok
        THEN GateReturn(FALSE, "User on cooldown", r.cooldowns, chk)
        ELSE IF RolesRequired(message, settings)
             THEN IF ~message.member
                  THEN GateReturn(FALSE, "Member not found", r.cooldowns,
                                  Append(chk, "member"))
                  ELSE IF ~HasRole(parse_allowed_roles(settings.allowed_roles),
                                   message.roles)
                       THEN GateReturn(FALSE, "Missing required role", r.cooldowns,
                                       chk \o <<"member", "role">>)
                       ELSE GateReturn(TRUE, "OK", r.cooldowns,
                                       chk \o <<"member", "role">>)
             ELSE GateReturn(TRUE, "OK", r.cooldowns, chk)

\* lines 138-162: the role requirement
RoleStage(cd, message, settings, now, checked) ==
    IF RolesRequired(message, settings)
    THEN IF ~message.member
         THEN GateReturn(FALSE, "Member not found", cd, Append(checked, "member"))
         ELSE IF ~HasRole(parse_allowed_roles(settings.allowed_roles), message.roles)
              THEN GateReturn(FALSE, "Missing required role", cd,
                              checked \o <<"member", "role">>)
              ELSE CooldownStage(cd, message, settings, now,
                                 checked \o <<"member", "role">>)
    ELSE CooldownStage(cd, message, settings, now, checked)

\* variant: the allow-list is consulted whatever the mode
ChannelStageAnyMode(cd, message, settings, now, checked) ==
    IF ~InList(message.channel, settings.watch_channels)
    THEN GateReturn(FALSE, "Channel not in watch list", cd,
                    Append(checked, "channel"))
    ELSE RoleStage(cd, message, settings, now, Append(checked, "channel"))

\* lines 134-136: the channel allow-list, consulted in mode "channels" only
ChannelStage(cd, message, settings, now, checked) ==
    IF settings.watch_mode = "channels"
    THEN IF ~InList(message.channel, settings.watch_channels)
         THEN GateReturn(FALSE, "Channel not in watch list", cd,
                         Append(checked, "channel"))
         ELSE RoleStage(cd, message, settings, now, Append(checked, "channel"))
    ELSE RoleStage(cd, message, settings, now, checked)

should_process_watch(cd, message, settings, now) ==
    IF settings.watch_mode = "disabled"
    THEN GateReturn(FALSE, "Watch mode disabled", cd, <<"mode">>)
    ELSE ChannelStage(cd, message, settings, now, <<"mode">>)

\* PAPI._should_process_watch, the gate of the cog's own on_message: the text
\* of the listener's, with self._check_watch_cooldown (the text of
\* check_cooldown, on the cog's watch_cooldowns) and with the allowed roles
\* parsed by self._parse_allowed_roles, a method the class does not have:
\* when the role requirement applies the call raises AttributeError
PAPI_should_process_watch(cd, message, settings, now) ==
    IF settings.watch_mode = "disabled"
    THEN [raised |-> FALSE,
          result |-> GateReturn(FALSE, "Watch mode disabled", cd, <<"mode">>)]
    ELSE IF settings.watch_mode = "channels"
              /\ ~InList(message.channel, settings.watch_channels)
    THEN [raised |-> FALSE,
          result |-> GateReturn(FALSE, "Channel not in watch list", cd,
                                <<"mode", "channel">>)]
    ELSE LET checked == IF settings.watch_mode = "channels"
                        THEN <<"mode", "channel">> ELSE <<"mode">>
         IN  IF RolesRequired(message, settings)
             THEN [raised |-> TRUE]
             ELSE [raised |-> FALSE,
                   result |-> CooldownStage(cd, message, settings, now, checked)]

(***************************************************************************)
(* Settings and messages                                                   *)
(***************************************************************************)
\* default_global of the cog, with the listener's watch_strict_mode off
DefaultConfig ==
    [watch_enabled |-> FALSE,
     watch_mode |-> "disabled", watch_strict_mode |-> FALSE,
     watch_channels |-> <<>>, watch_cooldown |-> 5,
     watch_max_placeholders |-> 10, watch_reply_type |-> "reply",
     watch_show_errors |-> TRUE, watch_require_roles |-> FALSE,
     watch_delete_trigger |-> FALSE, allowed_roles |-> <<"">>,
     api_key |-> "change-me-please"]

CooldownValues == {0, 2, HugeCooldown}

\* the stored settings with the gate's keys varying
GateSettings ==
    {[DefaultConfig EXCEPT !.watch_mode = m, !.watch_channels = ch,
                           !.watch_cooldown = c, !.watch_require_roles = rr,
                           !.allowed_roles = ar] :
        m \in {"disabled", "channels", "global"}, ch \in {<<>>, <<10>>},
        c \in CooldownValues, rr \in BOOLEAN, ar \in AllowedRolesStrings}

NoContent == [empty |-> TRUE, marker |-> FALSE, toks |-> <<>>]

\* who sent a message: outside a guild, in a guild without a member record,
\* or a member with roles
Senders ==
    {[guild |-> FALSE, member |-> FALSE, roles |-> {}],
     [guild |-> TRUE, member |-> FALSE, roles |-> {}]}
    \cup {[guild |-> TRUE, member |-> TRUE, roles |-> rs] : rs \in RoleSets}

Message(author, bot, channel, sender, content) ==
    [author |-> author, bot |-> bot, channel |-> channel, guild |-> sender.guild,
     member |-> sender.member, roles |-> sender.roles, content |-> content]

\* the messages a gate call is given: author, channel, guild, membership, roles
GateMessages ==
    {Message(a, FALSE, ch, s, NoContent) :
        a \in UserIds, ch \in ChannelIds, s \in Senders}

NoGate == [called |-> FALSE]
NoCall == [called |-> FALSE]
IdleTask == [pc |-> "idle"]
IdleEngine == [pc |-> "idle"]
NoFunction == [name |-> "none"]
NoCommand == [name |-> "none"]

(***************************************************************************)
(* Initial state: a fresh listener, no message in flight                   *)
(***************************************************************************)
InitCommon ==
    /\ cooldowns = EmptyDict
    /\ clock = NowStart
    /\ tasks = [t \in Tasks |-> IdleTask]
    /\ admitted = [u \in UserIds |-> <<>>]
    /\ gate = NoGate
    /\ cmd = NoCommand
    /\ cc = NoCall
    /\ eng = IdleEngine
    /\ fn = NoFunction

(***************************************************************************)
(* The clock: datetime.utcnow() is the wall clock, which advances and may  *)
(* be set back                                                             *)
(***************************************************************************)
Tick ==
    /\ clock < MaxTime
    /\ clock' = clock + 1
    /\ UNCHANGED <<cooldowns, config, tasks, admitted, gate, cc, eng, fn, cmd>>

ClockSetBack ==
    /\ \E back \in Times : back < clock /\ clock' = back
    /\ UNCHANGED <<cooldowns, config, tasks, admitted, gate, cc, eng, fn, cmd>>

(***************************************************************************)
(* Direct calls of the gate and of the cooldown check                      *)
(***************************************************************************)
\* await should_process_watch(message, settings), with the stored settings
GateCall ==
    /\ ~gate.called
    /\ \E message \in GateMessages :
        LET r == should_process_watch(cooldowns, message, config, clock)
        IN  /\ cooldowns' = r.cooldowns
            /\ gate' = [called |-> TRUE, message |-> message, now |-> clock,
                        ok |-> r.ok, reason |-> r.reason, checked |-> r.checked]
    /\ UNCHANGED <<clock, config, tasks, admitted, cc, eng, fn, cmd>>

\* the caller is done with the result of the gate
GateDone ==
    /\ gate.called
    /\ gate' = NoGate
    /\ UNCHANGED <<cooldowns, clock, config, tasks, admitted, cc, eng, fn, cmd>>

CooldownArgs == {-1, 0, 1, 2, HugeCooldown}

\* await check_cooldown(user_id, cooldown)
CooldownCall ==
    \E user_id \in UserIds, cooldown \in CooldownArgs :
        LET r == check_cooldown(cooldowns, user_id, cooldown, clock)
        IN  /\ cooldowns' = r.cooldowns
            /\ cc' = [called |-> TRUE, user_id |-> user_id, cooldown |-> cooldown,
                      now |-> clock, ok |-> r.ok]
            /\ UNCHANGED <<clock, config, tasks, admitted, gate, eng, fn, cmd>>

(***************************************************************************)
(* Placeholder tokens.  A content holds the marker flag (the text starts   *)
(* with "||papi||") and toks, what PLACEHOLDER_REGEX.findall returns.      *)
(***************************************************************************)
\* ":" in ph
HasColon(ph) ==
    ph \in {"server:online", "Server:Online", "steve:health", "SERVER:tps",
            ":online", "steve:stat:kills"}

\* ph.split(":", 1)[0]
ContextOf(ph) ==
    CASE ph = "server:online" -> "server"
      [] ph = "Server:Online" -> "Server"
      [] ph = "steve:health" -> "steve"
      [] ph = "SERVER:tps" -> "SERVER"
      [] ph = "steve:stat:kills" -> "steve"
      [] OTHER -> ""

\* ph.split(":", 1)[1], or ph without a colon
PlaceholderOf(ph) ==
    CASE ph = "server:online" -> "online"
      [] ph = "Server:Online" -> "Online"
      [] ph = "steve:health" -> "health"
      [] ph = "SERVER:tps" -> "tps"
      [] ph = ":online" -> "online"
      [] ph = "steve:stat:kills" -> "stat:kills"
      [] OTHER -> ph

NoPlayer == "None"

\* variant: the context is compared with "server" as written
PlayerOfCaseSensitive(ph) ==
    IF ~HasColon(ph) THEN NoPlayer
    ELSE IF ContextOf(ph) = "server" THEN NoPlayer
         ELSE ContextOf(ph)

\* lines 88-98: the player sent for a token
PlayerOf(ph) ==
    IF ~HasColon(ph) THEN NoPlayer
    ELSE IF ContextOf(ph) # "" /\ Lower(ContextOf(ph)) = "server" THEN NoPlayer
         ELSE ContextOf(ph)

RECURSIVE DedupeFrom(_, _, _)
DedupeFrom(placeholders, seen, unique) ==
    IF placeholders = <<>> THEN unique
    ELSE LET ph == Head(placeholders)
             key == Lower(ph)
         IN  IF key \notin seen
             THEN DedupeFrom(Tail(placeholders), seen \cup {key}, Append(unique, ph))
             ELSE DedupeFrom(Tail(placeholders), seen, unique)

\* variant: the unique tokens come out last-seen first
dedupe_placeholdersReversed(placeholders) ==
    LET unique == DedupeFrom(placeholders, {}, <<>>)
    IN  [i \in 1..Len(unique) |-> unique[Len(unique) + 1 - i]]

\* variant: the unique tokens come out in lower case
dedupe_placeholdersLowered(placeholders) ==
    LET unique == DedupeFrom(placeholders, {}, <<>>)
    IN  [i \in 1..Len(unique) |-> Lower(unique[i])]

\* WatchListener.dedupe_placeholders
dedupe_placeholders(placeholders) == DedupeFrom(placeholders, {}, <<>>)

\* parsed_content.replace(full_match, text): every occurrence of the raw token
ReplaceAll(parsed, ph, text) ==
    [i \in 1..Len(parsed) |-> IF parsed[i] = ph THEN text ELSE parsed[i]]

TokenLists == {<<>>, <<"server:online">>, <<"server:online", "bogus">>}

Contents ==
    {[empty |-> FALSE, marker |-> mk, toks |-> tl] :
        mk \in BOOLEAN, tl \in TokenLists}

PlainSender == [guild |-> TRUE, member |-> TRUE, roles |-> {}]

\* the messages on_message is given, one after the other, by one author
Messages ==
    {Message(1, FALSE, 10, PlainSender, c) : c \in Contents}
    \cup {Message(1, TRUE, 10, PlainSender, [empty |-> FALSE, marker |-> FALSE,
                                            toks |-> <<"server:online">>]),
          Message(1, FALSE, 10, [guild |-> FALSE, member |-> FALSE, roles |-> {}],
                  [empty |-> FALSE, marker |-> FALSE, toks |-> <<"server:online">>]),
          Message(1, FALSE, 10, PlainSender, NoContent)}

\* what one remote lookup gives back: a dict with success true and a value, a
\* dict with success false and an error, None (transport failure), or a body of
\* another shape, on which result.get raises
Outcomes == {"success", "failure", "none", "malformed"}

(***************************************************************************)
(* on_message, one task per message.  A task is suspended at pc:           *)
(*   load     await config.all()                      (line 181)           *)
(*   notice   await message.reply(too many)           (line 212)           *)
(*   resolve  await parse_placeholder_via_api         (line 100)           *)
(*   toperr   await reply / channel.send(error)       (lines 227-230)      *)
(*   thread   await message.create_thread             (line 258)           *)
(*   tsend    await thread.send                       (line 262)           *)
(*   reply    await message.reply(embed)              (line 264)           *)
(*   delete   await message.delete                    (line 269)           *)
(*   errreply await message.reply(generic error)      (line 280)           *)
(* raised: an exception left on_message.                                   *)
(***************************************************************************)
NoSettings == [loaded |-> FALSE]

NewTask(message, pc) ==
    [pc |-> pc, message |-> message, settings |-> NoSettings,
     ok |-> FALSE, reason |-> "", hit |-> FALSE, at |-> 0,
     placeholders |-> <<>>, idx |-> 0, parsed_content |-> <<>>,
     success_count |-> 0, error_count |-> 0, errors |-> <<>>,
     calls |-> <<>>, replies |-> <<>>, thread |-> FALSE, deleted |-> FALSE,
     raised |-> FALSE, caught |-> FALSE]

\* variant: the author is not tested for being a bot
DroppedExceptBots(message) ==
    ~message.guild \/ message.content.empty

\* lines 172-179: bots, direct messages and empty contents are dropped
Dropped(message) ==
    message.bot \/ ~message.guild \/ message.content.empty

\* variant: a message is taken up only when no other message is being handled
StartOneAtATime(t, msgs) ==
    /\ \A o \in Tasks : tasks[o].pc = "idle"
    /\ \E message \in msgs :
        tasks' = [tasks EXCEPT ![t] =
            NewTask(message, IF Dropped(message) THEN "done" ELSE "load")]
    /\ UNCHANGED <<cooldowns, clock, config, admitted, gate, cc, eng, fn, cmd>>

\* a message arrives: on_message runs up to await config.all()
Start(t, msgs) ==
    /\ tasks[t].pc = "idle"
    /\ \E message \in msgs :
        tasks' = [tasks EXCEPT ![t] =
            NewTask(message, IF Dropped(message) THEN "done" ELSE "load")]
    /\ UNCHANGED <<cooldowns, clock, config, admitted, gate, cc, eng, fn, cmd>>

\* variant: the cap applies even when it is 0
TooManyUnguarded(unique, settings) ==
    Len(unique) > settings.watch_max_placeholders

\* line 66 and line 210: the cap on unique placeholders
TooMany(unique, settings) ==
    /\ settings.watch_max_placeholders > 0
    /\ Len(unique) > settings.watch_max_placeholders

\* lines 186-194: strict mode ends the handler unless the text starts with the marker
StrictSkip(message, settings) ==
    settings.watch_strict_mode /\ ~message.content.marker

\* variant: a text without placeholders goes on to the loop
EngineEntryNoEmptyCheck(toks, settings) ==
    LET placeholders == dedupe_placeholders(toks)
    IN  IF TooMany(placeholders, settings) THEN "toomany" ELSE "loop"

\* lines 62-76: how parse_message_placeholders begins: a top-level error or the loop
EngineEntry(toks, settings) ==
    LET placeholders == dedupe_placeholders(toks)
    IN  IF TooMany(placeholders, settings) THEN "toomany"
        ELSE IF placeholders = <<>> THEN "noplaceholders"
        ELSE "loop"

\* variant: the result of the gate is not consulted
AfterGateIgnoreResult(message, settings, ok) ==
    IF message.content.toks = <<>> THEN "done"
    ELSE IF TooMany(dedupe_placeholders(message.content.toks), settings)
         THEN IF settings.watch_show_errors THEN "notice" ELSE "done"
         ELSE IF EngineEntry(message.content.toks, settings) = "loop"
              THEN "resolve" ELSE "toperr"

\* variant: the notice is sent whether errors are shown or not
AfterGateAlwaysNotice(message, settings, ok) ==
    IF ~ok THEN "done"
    ELSE IF message.content.toks = <<>> THEN "done"
    ELSE IF TooMany(dedupe_placeholders(message.content.toks), settings)
         THEN "notice"
         ELSE IF EngineEntry(message.content.toks, settings) = "loop"
              THEN "resolve" ELSE "toperr"

\* variant: the return of line 204 for a text without placeholders is left out
AfterGateNoEmptyReturn(message, settings, ok) ==
    IF ~ok THEN "done"
    ELSE IF TooMany(dedupe_placeholders(message.content.toks), settings)
         THEN IF settings.watch_show_errors THEN "notice" ELSE "done"
         ELSE IF EngineEntry(message.content.toks, settings) = "loop"
              THEN "resolve" ELSE "toperr"

\* lines 197-223: after the gate and strict mode, where on_message suspends next
AfterGate(message, settings, ok) ==
    IF ~ok THEN "done"
    ELSE IF message.content.toks = <<>> THEN "done"
    ELSE IF TooMany(dedupe_placeholders(message.content.toks), settings)
         THEN IF settings.watch_show_errors THEN "notice" ELSE "done"
         ELSE IF EngineEntry(message.content.toks, settings) = "loop"
              THEN "resolve" ELSE "toperr"

\* lines 181-223: the settings arrive; gate, strict mode and pre-filter run
\* without suspension
Gate(t) ==
    /\ tasks[t].pc = "load"
    /\ LET message == tasks[t].message
           settings == config
           r == should_process_watch(cooldowns, message, settings, clock)
           hit == r.ok /\ settings.watch_cooldown > 0
           next == IF StrictSkip(message, settings) THEN "done"
                   ELSE AfterGate(message, settings, r.ok)
       IN  /\ cooldowns' = r.cooldowns
           /\ admitted' = IF hit
                          THEN [admitted EXCEPT ![message.author] = Append(@, clock)]
                          ELSE admitted
           /\ tasks' = [tasks EXCEPT ![t] =
                [tasks[t] EXCEPT !.pc = next, !.settings = settings, !.ok = r.ok,
                          !.reason = r.reason, !.hit = hit,
                          !.at = IF hit THEN clock ELSE 0,
                          !.placeholders =
                              IF next = "resolve"
                              THEN dedupe_placeholders(message.content.toks)
                              ELSE <<>>,
                          !.parsed_content =
                              IF next = "resolve" THEN message.content.toks ELSE <<>>,
                          !.idx = IF next = "resolve" THEN 1 ELSE 0]]
    /\ UNCHANGED <<clock, config, gate, cc, eng, fn, cmd>>

\* variant: the reply type is read from the stored settings when the reply
\* is dispatched
DispatchFromStore(settings) ==
    IF config.watch_reply_type = "thread" THEN "thread" ELSE "reply"

\* lines 256-264: the reply is sent in a thread or inline
Dispatch(settings) ==
    IF settings.watch_reply_type = "thread" THEN "thread" ELSE "reply"

\* the message of a failed lookup (line 106)
ErrorMsg(outcome) ==
    IF outcome = "none" THEN "Connection failed." ELSE "remote error"

\* lines 84-116: one lookup returns and the loop goes on to the next await
Resolve(t) ==
    /\ tasks[t].pc = "resolve"
    /\ \E outcome \in Outcomes :
        LET tk == tasks[t]
            ph == tk.placeholders[tk.idx]
            call == [placeholder |-> PlaceholderOf(ph), player |-> PlayerOf(ph)]
            last == tk.idx = Len(tk.placeholders)
            next == IF last THEN Dispatch(tk.settings) ELSE "resolve"
        IN  tasks' = [tasks EXCEPT ![t] =
              IF outcome = "malformed"
              THEN [tk EXCEPT !.calls = Append(@, call), !.caught = TRUE,
                              !.pc = "errreply"]
              ELSE IF outcome = "success"
              THEN [tk EXCEPT !.calls = Append(@, call),
                              !.parsed_content = ReplaceAll(@, ph, "value"),
                              !.success_count = @ + 1,
                              !.idx = @ + 1, !.pc = next]
              ELSE [tk EXCEPT !.calls = Append(@, call),
                              !.parsed_content =
                                  IF tk.settings.watch_show_errors
                                  THEN ReplaceAll(@, ph, ErrorMsg(outcome))
                                  ELSE @,
                              !.errors = Append(@, <<ph, ErrorMsg(outcome)>>),
                              !.error_count = @ + 1,
                              !.idx = @ + 1, !.pc = next]]
    /\ UNCHANGED <<cooldowns, clock, config, admitted, gate, cc, eng, fn, cmd>>

\* lines 267-272: after the success reply
AfterReply(settings) ==
    IF settings.watch_delete_trigger THEN "delete" ELSE "done"

\* line 212: the too-many notice, sent outside the try block
Notice(t) ==
    /\ tasks[t].pc = "notice"
    /\ \E sent \in BOOLEAN :
        tasks' = [tasks EXCEPT ![t] =
            IF sent
            THEN [tasks[t] EXCEPT !.replies = Append(@, "toomany"), !.pc = "done"]
            ELSE [tasks[t] EXCEPT !.raised = TRUE, !.pc = "done"]]
    /\ UNCHANGED <<cooldowns, clock, config, admitted, gate, cc, eng, fn, cmd>>

\* line 258: create_thread
CreateThread(t) ==
    /\ tasks[t].pc = "thread"
    /\ \E created \in BOOLEAN :
        tasks' = [tasks EXCEPT ![t] =
            IF created
            THEN [tasks[t] EXCEPT !.thread = TRUE, !.pc = "tsend"]
            ELSE [tasks[t] EXCEPT !.caught = TRUE, !.pc = "errreply"]]
    /\ UNCHANGED <<cooldowns, clock, config, admitted, gate, cc, eng, fn, cmd>>

\* lines 227-231, 262 and 264: the error reply or the success reply is sent
Reply(t) ==
    /\ tasks[t].pc \in {"reply", "tsend", "toperr"}
    /\ \E sent \in BOOLEAN :
        LET tk == tasks[t]
        IN  tasks' = [tasks EXCEPT ![t] =
              IF ~sent
              THEN [tk EXCEPT !.caught = TRUE, !.pc = "errreply"]
              ELSE IF tk.pc = "toperr"
                   THEN [tk EXCEPT !.replies = Append(@, "error"), !.pc = "done"]
                   ELSE [tk EXCEPT !.replies = Append(@, "success"),
                                   !.pc = AfterReply(tk.settings)]]
    /\ UNCHANGED <<cooldowns, clock, config, admitted, gate, cc, eng, fn, cmd>>

\* lines 267-272: message.delete succeeds, is forbidden (swallowed) or fails otherwise
DeleteTrigger(t) ==
    /\ tasks[t].pc = "delete"
    /\ \E result \in {"deleted", "forbidden", "failed"} :
        tasks' = [tasks EXCEPT ![t] =
            IF result = "deleted" THEN [tasks[t] EXCEPT !.deleted = TRUE, !.pc = "done"]
            ELSE IF result = "forbidden" THEN [tasks[t] EXCEPT !.pc = "done"]
            ELSE [tasks[t] EXCEPT !.caught = TRUE, !.pc = "errreply"]]
    /\ UNCHANGED <<cooldowns, clock, config, admitted, gate, cc, eng, fn, cmd>>

\* lines 277-285: the generic error reply; its own failure is swallowed
ErrorReply(t) ==
    /\ tasks[t].pc = "errreply"
    /\ \E sent \in BOOLEAN :
        tasks' = [tasks EXCEPT ![t] =
            IF sent
            THEN [tasks[t] EXCEPT !.replies = Append(@, "generic"), !.pc = "done"]
            ELSE [tasks[t] EXCEPT !.pc = "done"]]
    /\ UNCHANGED <<cooldowns, clock, config, admitted, gate, cc, eng, fn, cmd>>

\* on_message has returned or raised: the task is gone
Return(t) ==
    /\ tasks[t].pc = "done"
    /\ tasks' = [tasks EXCEPT ![t] = IdleTask]
    /\ UNCHANGED <<cooldowns, clock, config, admitted, gate, cc, eng, fn, cmd>>

\* one step of the handler of task t when replies are inline and the trigger
\* is kept (watch_reply_type "reply", watch_delete_trigger off)
HandleInline(t) ==
    \/ Gate(t)
    \/ Resolve(t)
    \/ Notice(t)
    \/ Reply(t)
    \/ ErrorReply(t)
    \/ Return(t)

\* one step of the handler of task t
Handle(t) ==
    \/ HandleInline(t)
    \/ CreateThread(t)
    \/ DeleteTrigger(t)

\* the stored settings with the pipeline's keys varying
PipelineSettings ==
    {[DefaultConfig EXCEPT !.watch_mode = m, !.watch_strict_mode = st,
                           !.watch_cooldown = c, !.watch_max_placeholders = mx,
                           !.watch_reply_type = rt, !.watch_show_errors = se,
                           !.watch_delete_trigger = dt] :
        m \in {"disabled", "global"}, st \in BOOLEAN, c \in {0, 2}, mx \in {0, 1},
        rt \in {"reply", "thread"}, se \in BOOLEAN, dt \in BOOLEAN}

\* messages handled one after the other
Init == InitCommon /\ config \in PipelineSettings
Next == Start(1, Messages) \/ Handle(1) \/ Tick \/ ClockSetBack
Spec == Init /\ [][Next]_vars

InitGate == InitCommon /\ config \in GateSettings
NextGate == GateCall \/ GateDone \/ Tick \/ ClockSetBack
SpecGate == InitGate /\ [][NextGate]_vars

NextCooldown == CooldownCall \/ Tick \/ ClockSetBack
InitCooldown == InitCommon /\ config = DefaultConfig
SpecCooldown == InitCooldown /\ [][NextCooldown]_vars

\* the stored settings of the concurrent runs: cooldown on, a cap of one
\* placeholder, inline replies
ConcSettings ==
    {[DefaultConfig EXCEPT !.watch_mode = "global", !.watch_cooldown = c,
                           !.watch_max_placeholders = 1] : c \in {1, 2}}

\* the messages of the concurrent runs: one author, one or two placeholders
ConcMessages ==
    {Message(1, FALSE, 10, PlainSender,
             [empty |-> FALSE, marker |-> FALSE, toks |-> tl]) :
        tl \in {<<"server:online">>, <<"server:online", "bogus">>}}

\* messages handled concurrently: tasks switch at their suspension points
InitConc == InitCommon /\ config \in ConcSettings
NextConc ==
    \/ \E t \in Tasks : Start(t, ConcMessages) \/ HandleInline(t)
    \/ Tick
    \/ ClockSetBack
SpecConc == InitConc /\ [][NextConc]_vars

(***************************************************************************)
(* Substitution engine: WatchListener.parse_message_placeholders called    *)
(* with a text and the stored settings.  A text is the sequence of its     *)
(* token occurrences, what PLACEHOLDER_REGEX.findall returns; the working  *)
(* text holds one fragment per occurrence, "<token>" until a replace       *)
(* rewrites it.  The call is suspended at pc "resolve" (line 100) and ends *)
(* at "report" (line 118), "error" (lines 67 and 73) or "raised".          *)
(***************************************************************************)
\* f"<{ph}>"
FullMatch(ph) == "<" \o ph \o ">"

\* f"[x] *({error_msg})*", [x] standing for the cross mark
Marker(error_msg) == "[x] *(" \o error_msg \o ")*"

\* the values a lookup may resolve to: plain text, or text holding a token
Values == {"Yes", "<bogus>"}

\* what parse_placeholder_via_api returns: a dict with success true and a
\* value, a dict with success false with or without an error, None, or a JSON
\* body of another shape (a non-empty list, a dict with success but no value)
LookupResults ==
    {[kind |-> "success", value |-> v, haserr |-> FALSE, error |-> ""] : v \in Values}
    \cup {[kind |-> "failure", value |-> "", haserr |-> TRUE,
           error |-> "unknown placeholder"],
          [kind |-> "failure", value |-> "", haserr |-> FALSE, error |-> ""],
          [kind |-> "none", value |-> "", haserr |-> FALSE, error |-> ""],
          [kind |-> "malformed", value |-> "", haserr |-> FALSE, error |-> ""]}

\* str.strip("%")
StripPercent(s) ==
    CASE s = "%online%" -> "online"
      [] OTHER -> s

\* api.py lines 19-23: the query parameters of the request; player is sent
\* when it is neither None nor empty
RequestParams(placeholder, player) ==
    IF player \notin {NoPlayer, ""}
    THEN [placeholder |-> StripPercent(placeholder), player |-> player]
    ELSE [placeholder |-> StripPercent(placeholder)]

\* None, what the lookup returns without data
NoneResult == [kind |-> "none", value |-> "", haserr |-> FALSE, error |-> ""]

\* how one HTTP request ends: the session raises aiohttp.ClientError, it raises
\* another exception (a timeout), resp.json() raises as the body is not
\* JSON, or resp.json() decodes the body (a JSON null decodes to None)
Responses ==
    {[transport |-> t, body |-> NoneResult] :
        t \in {"client_error", "timeout", "not_json"}}
    \cup {[transport |-> "ok", body |-> b] : b \in LookupResults}

\* APIHelper.parse_placeholder_via_api: the decoded body as it is, or None
\* when the request or the decoding raised
parse_placeholder_via_api(response) ==
    IF response.transport = "ok" THEN response.body ELSE NoneResult

\* line 106: result.get("error", "Unknown error") if result else "Connection failed."
ErrorMsgOf(result) ==
    IF result.kind = "none" THEN "Connection failed."
    ELSE IF result.haserr THEN result.error ELSE "Unknown error"

\* the texts given to the engine
EngineTexts ==
    {<<>>, <<"server:online">>, <<"bogus">>, <<"server:online", "bogus">>,
     <<"Server:Online", "server:online">>,
     <<"server:online", "bogus", "server:online">>,
     <<"server:online", "bogus", "motd">>,
     <<"steve:health", "SERVER:tps">>, <<":online", "steve:stat:kills">>}

\* the stored settings with the engine's keys varying
EngineSettings ==
    {[DefaultConfig EXCEPT !.watch_mode = "global", !.watch_max_placeholders = mx,
                           !.watch_show_errors = se] :
        mx \in {0, 1, 2}, se \in BOOLEAN}

\* lines 62-81: the call up to its first await or its top-level return
EngineStart(text, settings) ==
    LET placeholders == dedupe_placeholders(text)
        entry == EngineEntry(text, settings)
    IN  [pc |-> IF entry = "loop" THEN "resolve" ELSE "error",
         error |-> IF entry = "loop" THEN "" ELSE entry,
         text |-> text, settings |-> settings,
         placeholders |-> placeholders,
         idx |-> IF entry = "loop" THEN 1 ELSE 0,
         parsed_content |-> [i \in 1..Len(text) |-> FullMatch(text[i])],
         success_count |-> 0, error_count |-> 0, errors |-> <<>>,
         calls |-> <<>>, results |-> <<>>, responses |-> <<>>, requests |-> <<>>]

\* the request of one lookup (lines 88-100)
CallOf(ph) == [placeholder |-> PlaceholderOf(ph), player |-> PlayerOf(ph)]

\* variant: a failure is neither counted nor recorded when errors are hidden
LoopBodyUncountedWhenHidden(st, result) ==
    LET ph == st.placeholders[st.idx]
        full_match == FullMatch(ph)
        next == IF st.idx = Len(st.placeholders) THEN "report" ELSE "resolve"
        called == [st EXCEPT !.calls = Append(@, CallOf(ph)),
                             !.results = Append(@, result)]
    IN  IF result.kind = "malformed" THEN [called EXCEPT !.pc = "raised"]
        ELSE IF result.kind = "success"
        THEN [called EXCEPT
                !.parsed_content = ReplaceAll(@, full_match, result.value),
                !.success_count = @ + 1, !.idx = @ + 1, !.pc = next]
        ELSE IF st.settings.watch_show_errors
        THEN [called EXCEPT
                !.parsed_content = ReplaceAll(@, full_match, Marker(ErrorMsgOf(result))),
                !.errors = Append(@, <<full_match, ErrorMsgOf(result)>>),
                !.error_count = @ + 1, !.idx = @ + 1, !.pc = next]
        ELSE [called EXCEPT !.idx = @ + 1, !.pc = next]

\* variant: the marker replaces a failing token whether errors are shown or not
LoopBodyAlwaysMark(st, result) ==
    LET ph == st.placeholders[st.idx]
        full_match == FullMatch(ph)
        next == IF st.idx = Len(st.placeholders) THEN "report" ELSE "resolve"
        called == [st EXCEPT !.calls = Append(@, CallOf(ph)),
                             !.results = Append(@, result)]
    IN  IF result.kind = "malformed" THEN [called EXCEPT !.pc = "raised"]
        ELSE IF result.kind = "success"
        THEN [called EXCEPT
                !.parsed_content = ReplaceAll(@, full_match, result.value),
                !.success_count = @ + 1, !.idx = @ + 1, !.pc = next]
        ELSE [called EXCEPT
                !.parsed_content = ReplaceAll(@, full_match, Marker(ErrorMsgOf(result))),
                !.errors = Append(@, <<full_match, ErrorMsgOf(result)>>),
                !.error_count = @ + 1, !.idx = @ + 1, !.pc = next]

\* lines 84-116: the lookup of the current token returns; the loop body runs
\* and the loop goes on to the next await or to the return of line 118.  On a
\* body of another shape result.get or result["value"] raises.
LoopBody(st, result) ==
    LET ph == st.placeholders[st.idx]
        full_match == FullMatch(ph)
        next == IF st.idx = Len(st.placeholders) THEN "report" ELSE "resolve"
        called == [st EXCEPT !.calls = Append(@, CallOf(ph)),
                             !.results = Append(@, result)]
    IN  IF result.kind = "malformed" THEN [called EXCEPT !.pc = "raised"]
        ELSE IF result.kind = "success"
        THEN [called EXCEPT
                !.parsed_content = ReplaceAll(@, full_match, result.value),
                !.success_count = @ + 1, !.idx = @ + 1, !.pc = next]
        ELSE [called EXCEPT
                !.parsed_content =
                    IF st.settings.watch_show_errors
                    THEN ReplaceAll(@, full_match, Marker(ErrorMsgOf(result)))
                    ELSE @,
                !.errors = Append(@, <<full_match, ErrorMsgOf(result)>>),
                !.error_count = @ + 1, !.idx = @ + 1, !.pc = next]

\* await parse_message_placeholders(text, settings), with the stored settings
EngineCall ==
    /\ eng.pc = "idle"
    /\ \E text \in EngineTexts : eng' = EngineStart(text, config)
    /\ UNCHANGED <<cooldowns, clock, config, tasks, admitted, gate, cc, fn, cmd>>

\* one lookup of the call returns
EngineResolve ==
    /\ eng.pc = "resolve"
    /\ \E response \in Responses :
        eng' = [LoopBody(eng, parse_placeholder_via_api(response))
                    EXCEPT !.responses = Append(@, response),
                           !.requests =
                               LET call == CallOf(eng.placeholders[eng.idx])
                               IN  Append(@, RequestParams(call.placeholder,
                                                           call.player))]
    /\ UNCHANGED <<cooldowns, clock, config, tasks, admitted, gate, cc, fn, cmd>>

\* the call has returned its report or its error, or has raised
EngineReturn ==
    /\ eng.pc \in {"report", "error", "raised"}
    /\ eng' = IdleEngine
    /\ UNCHANGED <<cooldowns, clock, config, tasks, admitted, gate, cc, fn, cmd>>

InitEngine == InitCommon /\ config \in EngineSettings
NextEngine == EngineCall \/ EngineResolve \/ EngineReturn
SpecEngine == InitEngine /\ [][NextEngine]_vars

(***************************************************************************)
(* Direct calls of dedupe_placeholders, on every token list of at most     *)
(* MaxTokens tokens                                                        *)
(***************************************************************************)
MaxTokens == 4

TokenAlphabet == {"server:online", "Server:Online", "bogus", "Bogus"}

DedupeInputs == UNION {[1..n -> TokenAlphabet] : n \in 0..MaxTokens}

\* unique = dedupe_placeholders(placeholders)
DedupeCall ==
    /\ \E placeholders \in DedupeInputs :
        fn' = [name |-> "dedupe", input |-> placeholders,
               output |-> dedupe_placeholders(placeholders)]
    /\ UNCHANGED <<cooldowns, clock, config, tasks, admitted, gate, cc, eng, cmd>>

InitDedupe == InitCommon /\ config = DefaultConfig
NextDedupe == DedupeCall
SpecDedupe == InitDedupe /\ [][NextDedupe]_vars

(***************************************************************************)
(* The success reply: the embed on_message composes from a report          *)
(* (lines 233-254), on reports with at most MaxErrors failures             *)
(***************************************************************************)
MaxErrors == 7

\* result['errors'][:5]: the number of error lines an embed shows
ErrorLinesShown == 5

ErrorEntries ==
    {<<"<bogus>", "unknown placeholder">>, <<"<motd>", "Connection failed.">>}

\* the reports of the engine: one errors entry per failed lookup
Reports ==
    {[parsed_content |-> <<"Yes">>, success_count |-> sc,
      error_count |-> Len(errs), errors |-> errs] :
        sc \in {0, 1},
        errs \in UNION {[1..n -> ErrorEntries] : n \in 0..MaxErrors}}

\* list[:n]
Prefix(list, n) == SubSeq(list, 1, IF Len(list) < n THEN Len(list) ELSE n)

\* variant: the truncation note appears from five errors on
ComposeEmbedNoteAtFive(result, settings) ==
    LET shown == result.errors # <<>> /\ settings.watch_show_errors
        more == Len(result.errors) >= ErrorLinesShown
    IN  [description |-> result.parsed_content,
         parsed |-> result.success_count,
         failed_shown |-> result.error_count > 0,
         failed |-> result.error_count,
         has_errors_field |-> shown,
         lines |-> IF shown THEN Prefix(result.errors, ErrorLinesShown) ELSE <<>>,
         note |-> shown /\ more,
         more |-> IF shown /\ more
                  THEN Len(result.errors) - ErrorLinesShown ELSE 0]

\* lines 233-254: description, footer and the Errors field of the embed
ComposeEmbed(result, settings) ==
    LET shown == result.errors # <<>> /\ settings.watch_show_errors
        more == Len(result.errors) > ErrorLinesShown
    IN  [description |-> result.parsed_content,
         parsed |-> result.success_count,
         failed_shown |-> result.error_count > 0,
         failed |-> result.error_count,
         has_errors_field |-> shown,
         lines |-> IF shown THEN Prefix(result.errors, ErrorLinesShown) ELSE <<>>,
         note |-> shown /\ more,
         more |-> IF shown /\ more
                  THEN Len(result.errors) - ErrorLinesShown ELSE 0]

\* on_message composes the embed of a report under the stored settings
ComposeCall ==
    /\ \E result \in Reports :
        fn' = [name |-> "compose", result |-> result, settings |-> config,
               embed |-> ComposeEmbed(result, config)]
    /\ UNCHANGED <<cooldowns, clock, config, tasks, admitted, gate, cc, eng, cmd>>

ComposeSettings ==
    {[DefaultConfig EXCEPT !.watch_mode = "global", !.watch_show_errors = se] :
        se \in BOOLEAN}

InitCompose == InitCommon /\ config \in ComposeSettings
NextCompose == ComposeCall
SpecCompose == InitCompose /\ [][NextCompose]_vars

(***************************************************************************)
(* Configuration commands of the cog (papi.py lines 504-546) running while *)
(* a message is handled                                                    *)
(***************************************************************************)
\* what a command leaves in its context: its name, its argument, the text it
\* passed to temp_message, and whether it ended by raising
Command(name, arg, sent, raised) ==
    [name |-> name, arg |-> arg, sent |-> sent, raised |-> raised]

\* the arguments the commands are given
CountArgs == {-1, 0, 1}
ReplyTypeArgs == {"reply", "thread", "Thread", "embed"}

\* variant: every count is stored
watch_max_placeholders_commandUnchecked ==
    /\ \E max_count \in CountArgs :
        /\ config' = [config EXCEPT !.watch_max_placeholders = max_count]
        /\ cmd' = Command("maxplaceholders", max_count, "Max placeholders set", FALSE)
    /\ UNCHANGED <<cooldowns, clock, tasks, admitted, gate, cc, eng, fn>>

\* papiset watch maxplaceholders <max_count>
watch_max_placeholders_command ==
    /\ \E max_count \in CountArgs :
        IF max_count < 0
        THEN /\ config' = config
             /\ cmd' = Command("maxplaceholders", max_count,
                               "Max must be 0 or higher", FALSE)
        ELSE /\ config' = [config EXCEPT !.watch_max_placeholders = max_count]
             /\ cmd' = Command("maxplaceholders", max_count,
                               IF max_count = 0 THEN "Placeholder limit disabled"
                               ELSE "Max placeholders set", FALSE)
    /\ UNCHANGED <<cooldowns, clock, tasks, admitted, gate, cc, eng, fn>>

\* papiset watch replytype <reply_type>
watch_reply_type_command ==
    /\ \E reply_type \in ReplyTypeArgs :
        IF Lower(reply_type) \notin {"reply", "thread"}
        THEN /\ config' = config
             /\ cmd' = Command("replytype", reply_type, "Invalid type", FALSE)
        ELSE /\ config' = [config EXCEPT !.watch_reply_type = Lower(reply_type)]
             /\ cmd' = Command("replytype", reply_type, "Reply type set", FALSE)
    /\ UNCHANGED <<cooldowns, clock, tasks, admitted, gate, cc, eng, fn>>

\* papiset watch showerrors <enabled>
watch_show_errors_command ==
    /\ \E enabled \in BOOLEAN :
        /\ config' = [config EXCEPT !.watch_show_errors = enabled]
        /\ cmd' = Command("showerrors", enabled,
                          IF enabled THEN "Error display enabled"
                          ELSE "Error display disabled", FALSE)
    /\ UNCHANGED <<cooldowns, clock, tasks, admitted, gate, cc, eng, fn>>

\* papiset watch deletetrigger <enabled>
watch_delete_trigger_command ==
    /\ \E enabled \in BOOLEAN :
        /\ config' = [config EXCEPT !.watch_delete_trigger = enabled]
        /\ cmd' = Command("deletetrigger", enabled,
                          IF enabled THEN "Delete command message: enabled"
                          ELSE "Delete command message: disabled", FALSE)
    /\ UNCHANGED <<cooldowns, clock, tasks, admitted, gate, cc, eng, fn>>

ModeArgs == {"channels", "global", "GLOBAL", "disabled", "off"}

\* variant: watching is switched on whatever the mode is
watch_enable_commandUnguarded ==
    /\ config' = [config EXCEPT !.watch_enabled = TRUE]
    /\ cmd' = Command("enable", "", "Watch mode enabled", FALSE)
    /\ UNCHANGED <<cooldowns, clock, tasks, admitted, gate, cc, eng, fn>>

\* papiset watch enable
watch_enable_command ==
    /\ IF config.watch_mode = "disabled"
       THEN /\ config' = config
            /\ cmd' = Command("enable", "", "Please set watch mode first", FALSE)
       ELSE /\ config' = [config EXCEPT !.watch_enabled = TRUE]
            /\ cmd' = Command("enable", "", "Watch mode enabled", FALSE)
    /\ UNCHANGED <<cooldowns, clock, tasks, admitted, gate, cc, eng, fn>>

\* papiset watch disable
watch_disable_command ==
    /\ config' = [config EXCEPT !.watch_enabled = FALSE,
                                !.watch_mode = "disabled"]
    /\ cmd' = Command("disable", "", "Watch mode disabled", FALSE)
    /\ UNCHANGED <<cooldowns, clock, tasks, admitted, gate, cc, eng, fn>>

\* papiset watch mode <mode>
watch_mode_command ==
    /\ \E mode \in ModeArgs :
        IF Lower(mode) \notin {"channels", "global"}
        THEN /\ config' = config
             /\ cmd' = Command("mode", mode, "Invalid mode", FALSE)
        ELSE /\ config' = [config EXCEPT !.watch_mode = Lower(mode),
                                         !.watch_enabled = TRUE]
             /\ cmd' = Command("mode", mode, "Watch mode set", FALSE)
    /\ UNCHANGED <<cooldowns, clock, tasks, admitted, gate, cc, eng, fn>>

\* list.remove(x): the first occurrence of x is taken out
RECURSIVE ListRemove(_, _)
ListRemove(list, x) ==
    IF list = <<>> THEN <<>>
    ELSE IF Head(list) = x THEN Tail(list)
    ELSE <<Head(list)>> \o ListRemove(Tail(list), x)

\* variant: the channel is appended without looking for it in the list
watch_add_channel_commandUnchecked ==
    /\ \E channel \in ChannelIds :
        /\ config' = [config EXCEPT !.watch_channels =
                                        Append(config.watch_channels, channel)]
        /\ cmd' = Command("addchannel", channel, "", TRUE)
    /\ UNCHANGED <<cooldowns, clock, tasks, admitted, gate, cc, eng, fn>>

\* papiset watch addchannel <channel>; the confirmation is asked of
\* temp_message with a keyword it does not have (delete_delay), which raises
\* TypeError once the list has been stored
watch_add_channel_command ==
    /\ \E channel \in ChannelIds :
        LET channels == config.watch_channels
        IN  IF InList(channel, channels)
            THEN /\ config' = config
                 /\ cmd' = Command("addchannel", channel,
                                   "already in the watch list", FALSE)
            ELSE /\ config' = [config EXCEPT !.watch_channels =
                                                 Append(channels, channel)]
                 /\ cmd' = Command("addchannel", channel, "", TRUE)
    /\ UNCHANGED <<cooldowns, clock, tasks, admitted, gate, cc, eng, fn>>

\* papiset watch removechannel <channel>; here the refusal is asked of
\* temp_message with the keyword it does not have
watch_remove_channel_command ==
    /\ \E channel \in ChannelIds :
        LET channels == config.watch_channels
        IN  IF ~InList(channel, channels)
            THEN /\ config' = config
                 /\ cmd' = Command("removechannel", channel, "", TRUE)
            ELSE /\ config' = [config EXCEPT !.watch_channels =
                                                 ListRemove(channels, channel)]
                 /\ cmd' = Command("removechannel", channel,
                                   "Removed from watch list", FALSE)
    /\ UNCHANGED <<cooldowns, clock, tasks, admitted, gate, cc, eng, fn>>

\* papiset watch cooldown <seconds>
watch_cooldown_command ==
    /\ \E seconds \in CountArgs :
        IF seconds < 0
        THEN /\ config' = config
             /\ cmd' = Command("cooldown", seconds,
                               "Cooldown must be 0 or greater", FALSE)
        ELSE /\ config' = [config EXCEPT !.watch_cooldown = seconds]
             /\ cmd' = Command("cooldown", seconds,
                               IF seconds = 0 THEN "Watch cooldown disabled"
                               ELSE "Watch cooldown set", FALSE)
    /\ UNCHANGED <<cooldowns, clock, tasks, admitted, gate, cc, eng, fn>>

\* the commands of the watch group, run one after the other on the default
\* settings
InitConfig == InitCommon /\ config = DefaultConfig
NextConfig ==
    \/ watch_enable_command
    \/ watch_disable_command
    \/ watch_mode_command
    \/ watch_add_channel_command
    \/ watch_remove_channel_command
    \/ watch_cooldown_command
    \/ watch_max_placeholders_command
    \/ watch_reply_type_command
SpecConfig == InitConfig /\ [][NextConfig]_vars

(***************************************************************************)
(* temp_message and the keep reaction.  cmd holds the message sent: pc is  *)
(* where the task of handle_keep_reaction is suspended ("add", "sleep",    *)
(* "fetch", "unpin", "delete", "fsleep", "fdelete", "ended"), "auto" when  *)
(* the deletion was left to ctx.send, "none" when no deletion was asked    *)
(***************************************************************************)
MaxDelay == 2

\* what a call of the Discord API on the message does: it succeeds, or raises
\* discord.Forbidden, or another discord.HTTPException; on a message that no
\* longer exists it raises discord.NotFound
ApiOutcomes(exists) ==
    IF exists THEN {"ok", "forbidden", "failed"} ELSE {"notfound"}

\* lines 38-50 of messages.py (693-703 of papi.py): the message is sent; the
\* task deleting the command and the task of the keep reaction are created
temp_message ==
    /\ cmd = NoCommand
    /\ \E keep_message \in BOOLEAN, delete_after \in 0..MaxDelay,
          delete_command \in BOOLEAN :
        cmd' = [name |-> "temp_message",
                pc |-> IF keep_message /\ delete_after > 0 THEN "add"
                       ELSE IF delete_after > 0 THEN "auto" ELSE "none",
                keep_message |-> keep_message, delete_after |-> delete_after,
                waited |-> 0, wake |-> 0, exists |-> TRUE,
                pinned |-> FALSE, botpin |-> FALSE, add |-> "none",
                delete_called |-> FALSE, raised |-> FALSE,
                command |-> IF delete_command THEN "pending" ELSE "kept"]
    /\ UNCHANGED <<cooldowns, clock, config, tasks, admitted, gate, cc, eng, fn>>

KeepTask == cmd.name = "temp_message"

\* ctx.send(delete_after=...): the library deletes the message after the delay
AutoDelete ==
    /\ KeepTask /\ cmd.pc = "auto" /\ cmd.waited >= cmd.delete_after
    /\ cmd' = [cmd EXCEPT !.pc = "ended", !.exists = FALSE]
    /\ UNCHANGED <<cooldowns, clock, config, tasks, admitted, gate, cc, eng, fn>>

\* delete_command_message: every failure of the deletion is swallowed
DeleteCommandMessage ==
    /\ KeepTask /\ cmd.command = "pending"
    /\ \E outcome \in {"ok", "notfound", "forbidden", "failed"} :
        cmd' = [cmd EXCEPT !.command = IF outcome = "ok" THEN "deleted"
                                       ELSE "kept"]
    /\ UNCHANGED <<cooldowns, clock, config, tasks, admitted, gate, cc, eng, fn>>

\* line 62: await msg.add_reaction(pin); Forbidden goes to the handler of line
\* 94, any other exception to the handler of line 102, which only logs
AddReaction ==
    /\ KeepTask /\ cmd.pc = "add"
    /\ \E outcome \in ApiOutcomes(cmd.exists) :
        cmd' = [cmd EXCEPT !.add = outcome,
                           !.botpin = (outcome = "ok"),
                           !.wake = cmd.waited + cmd.delete_after,
                           !.pc = CASE outcome = "ok" -> "sleep"
                                    [] outcome = "forbidden" -> "fsleep"
                                    [] OTHER -> "ended"]
    /\ UNCHANGED <<cooldowns, clock, config, tasks, admitted, gate, cc, eng, fn>>

\* one second passes
Sleep ==
    /\ KeepTask /\ cmd.waited < 2 * MaxDelay
    /\ cmd.pc \notin {"none"}
    /\ cmd' = [cmd EXCEPT !.waited = cmd.waited + 1]
    /\ UNCHANGED <<cooldowns, clock, config, tasks, admitted, gate, cc, eng, fn>>

\* the command author adds or removes the pin reaction before the delay is over
AuthorReacts ==
    /\ KeepTask /\ cmd.exists /\ cmd.waited < cmd.delete_after
    /\ cmd' = [cmd EXCEPT !.pinned = ~cmd.pinned]
    /\ UNCHANGED <<cooldowns, clock, config, tasks, admitted, gate, cc, eng, fn>>

\* somebody else deletes the message
OtherDeletes ==
    /\ KeepTask /\ cmd.exists /\ cmd.pc \notin {"ended", "none", "auto"}
    /\ cmd' = [cmd EXCEPT !.exists = FALSE, !.pinned = FALSE, !.botpin = FALSE]
    /\ UNCHANGED <<cooldowns, clock, config, tasks, admitted, gate, cc, eng, fn>>

\* lines 64-82: after the sleep the message is fetched and its reactions are
\* read.  NotFound ends the handler; Forbidden goes to the handler of line 94,
\* which sleeps once more and deletes; another exception goes to line 102
FetchMessage ==
    /\ KeepTask /\ cmd.pc = "sleep" /\ cmd.waited >= cmd.wake
    /\ \E outcome \in ApiOutcomes(cmd.exists) :
        cmd' = [cmd EXCEPT !.wake = cmd.waited + cmd.delete_after,
                           !.pc = CASE outcome = "ok" ->
                                        IF cmd.pinned THEN "unpin" ELSE "delete"
                                    [] outcome = "forbidden" -> "fsleep"
                                    [] OTHER -> "ended"]
    /\ UNCHANGED <<cooldowns, clock, config, tasks, admitted, gate, cc, eng, fn>>

\* lines 76-82: the author has pinned: the bot's reaction is taken off, any
\* failure of that is swallowed, and the message is kept
RemoveReaction ==
    /\ KeepTask /\ cmd.pc = "unpin"
    /\ \E outcome \in ApiOutcomes(cmd.exists) :
        cmd' = [cmd EXCEPT !.pc = "ended",
                           !.botpin = IF outcome = "ok" THEN FALSE ELSE cmd.botpin]
    /\ UNCHANGED <<cooldowns, clock, config, tasks, admitted, gate, cc, eng, fn>>

\* lines 84-92 and 97-101: await msg.delete(), every failure swallowed
DeleteMessage ==
    /\ KeepTask
    /\ \/ cmd.pc = "delete"
       \/ cmd.pc = "fsleep" /\ cmd.waited >= cmd.wake
    /\ \E outcome \in ApiOutcomes(cmd.exists) :
        cmd' = [cmd EXCEPT !.pc = "ended", !.delete_called = TRUE,
                           !.exists = IF outcome = "ok" THEN FALSE ELSE cmd.exists,
                           !.pinned = IF outcome = "ok" THEN FALSE ELSE cmd.pinned,
                           !.botpin = IF outcome = "ok" THEN FALSE ELSE cmd.botpin]
    /\ UNCHANGED <<cooldowns, clock, config, tasks, admitted, gate, cc, eng, fn>>

\* temporary messages with their keep reaction, one at a time
NextKeep ==
    \/ temp_message
    \/ AutoDelete
    \/ DeleteCommandMessage
    \/ AddReaction
    \/ Sleep
    \/ AuthorReacts
    \/ OtherDeletes
    \/ FetchMessage
    \/ RemoveReaction
    \/ DeleteMessage
SpecKeep == InitConfig /\ [][NextKeep]_vars

(***************************************************************************)
(* The slash command /papi.  cmd holds the interaction: pc is where the    *)
(* handler is suspended ("defer", "load", "lookup", "send", "except",      *)
(* "done"), pending the follow-up it is about to send, followups the       *)
(* follow-ups delivered, requests the remote requests issued               *)
(***************************************************************************)
\* the decoded bodies the remote end may answer the command with: those of
\* LookupResults, a success body coming with or without its placeholder and
\* context keys
SlashResponses ==
    {[transport |-> r.transport, body |-> r.body, complete |-> c] :
        r \in Responses, c \in BOOLEAN}

SlashPlaceholders == {"server_online", "%online%"}
SlashPlayers == {NoPlayer, "steve"}

\* the settings the command may find stored
SlashSettings ==
    {[DefaultConfig EXCEPT !.api_key = k] : k \in {"change-me-please", "secret"}}

\* variant: every decoded answer is shown as a result
FollowupForEmbedAlways(result, complete) ==
    IF result.kind = "none" THEN "Failed to connect"
    ELSE IF result.kind = "malformed" THEN "raise"
    ELSE "embed"

\* lines 634-655: the follow-up chosen for the result of the lookup, or
\* "raise" when reading the result raises (a body that is no dict, a success
\* body without placeholder or context)
FollowupFor(result, complete) ==
    IF result.kind = "none" THEN "Failed to connect"
    ELSE IF result.kind = "malformed" THEN "raise"
    ELSE IF result.kind = "failure"
         THEN IF result.haserr THEN result.error ELSE "Unknown error"
    ELSE IF complete THEN "embed" ELSE "raise"

\* lines 604-617: the command is received; it runs to interaction.response.defer
papi_slash ==
    /\ cmd = NoCommand
    /\ \E placeholder \in SlashPlaceholders, player \in SlashPlayers :
        cmd' = [name |-> "papi_slash", pc |-> "defer",
                placeholder |-> placeholder, player |-> player,
                api_key |-> "", reported |-> "nothing", pending |-> "",
                requests |-> <<>>, followups |-> <<>>, raised |-> FALSE]
    /\ UNCHANGED <<cooldowns, clock, config, tasks, admitted, gate, cc, eng, fn>>

SlashTask == cmd.name = "papi_slash"

\* line 617: the defer is outside the try, its failure leaves the handler
SlashDefer ==
    /\ SlashTask /\ cmd.pc = "defer"
    /\ \E outcome \in {"ok", "failed"} :
        cmd' = IF outcome = "ok" THEN [cmd EXCEPT !.pc = "load"]
               ELSE [cmd EXCEPT !.pc = "done", !.raised = TRUE]
    /\ UNCHANGED <<cooldowns, clock, config, tasks, admitted, gate, cc, eng, fn>>

\* lines 620-628: the settings are read; with the default key the refusal is
\* the follow-up and no request is made
SlashLoad ==
    /\ SlashTask /\ cmd.pc = "load"
    /\ cmd' = IF config.api_key = "change-me-please"
              THEN [cmd EXCEPT !.api_key = config.api_key, !.pc = "send",
                               !.pending = "API key not configured"]
              ELSE [cmd EXCEPT !.api_key = config.api_key, !.pc = "lookup"]
    /\ UNCHANGED <<cooldowns, clock, config, tasks, admitted, gate, cc, eng, fn>>

\* lines 631-655: the lookup returns and its result is read
SlashLookup ==
    /\ SlashTask /\ cmd.pc = "lookup"
    /\ \E response \in SlashResponses :
        LET result == parse_placeholder_via_api(response)
            next == FollowupFor(result, response.complete)
        IN  cmd' = [cmd EXCEPT
                      !.requests = Append(cmd.requests,
                                          RequestParams(cmd.placeholder, cmd.player)),
                      !.reported = result.kind,
                      !.pending = IF next = "raise" THEN "" ELSE next,
                      !.pc = IF next = "raise" THEN "except" ELSE "send"]
    /\ UNCHANGED <<cooldowns, clock, config, tasks, admitted, gate, cc, eng, fn>>

\* lines 624, 634, 642, 655: interaction.followup.send inside the try
SlashSend ==
    /\ SlashTask /\ cmd.pc = "send"
    /\ \E outcome \in {"ok", "failed"} :
        cmd' = IF outcome = "ok"
               THEN [cmd EXCEPT !.followups = Append(cmd.followups, cmd.pending),
                                !.pc = "done"]
               ELSE [cmd EXCEPT !.pc = "except"]
    /\ UNCHANGED <<cooldowns, clock, config, tasks, admitted, gate, cc, eng, fn>>

\* lines 660-665: the handler of every exception sends the generic follow-up;
\* a failure of that one leaves the handler
SlashExcept ==
    /\ SlashTask /\ cmd.pc = "except"
    /\ \E outcome \in {"ok", "failed"} :
        cmd' = IF outcome = "ok"
               THEN [cmd EXCEPT !.followups = Append(cmd.followups,
                                                     "An unexpected error occurred"),
                                !.pc = "done"]
               ELSE [cmd EXCEPT !.pc = "done", !.raised = TRUE]
    /\ UNCHANGED <<cooldowns, clock, config, tasks, admitted, gate, cc, eng, fn>>

\* the handler has returned or raised
SlashReturn ==
    /\ SlashTask /\ cmd.pc = "done"
    /\ cmd' = NoCommand
    /\ UNCHANGED <<cooldowns, clock, config, tasks, admitted, gate, cc, eng, fn>>

InitSlash == InitCommon /\ config \in SlashSettings
NextSlash ==
    \/ papi_slash
    \/ SlashDefer
    \/ SlashLoad
    \/ SlashLookup
    \/ SlashSend
    \/ SlashExcept
    \/ SlashReturn
SpecSlash == InitSlash /\ [][NextSlash]_vars

\* the stored settings the commands range over
SnapSettings ==
    {[DefaultConfig EXCEPT !.watch_mode = "global", !.watch_cooldown = 0,
                           !.watch_max_placeholders = mx,
                           !.watch_reply_type = rt, !.watch_show_errors = se,
                           !.watch_delete_trigger = dt] :
        mx \in {0, 1}, rt \in {"reply", "thread"}, se \in BOOLEAN, dt \in BOOLEAN}

\* messages handled while commands change the stored settings
InitSnap == InitCommon /\ config \in SnapSettings
NextSnap ==
    \/ Start(1, ConcMessages)
    \/ Handle(1)
    \/ watch_max_placeholders_command
    \/ watch_reply_type_command
    \/ watch_show_errors_command
    \/ watch_delete_trigger_command
SpecSnap == InitSnap /\ [][NextSnap]_vars

\* the messages of the concurrent runs of several users
UserMessages ==
    {Message(a, FALSE, 10, PlainSender,
             [empty |-> FALSE, marker |-> FALSE, toks |-> tl]) :
        a \in UserIds, tl \in {<<"server:online">>, <<"server:online", "bogus">>}}

\* messages of several users handled concurrently
NextUsers ==
    \/ \E t \in Tasks : Start(t, UserMessages) \/ HandleInline(t)
    \/ Tick
    \/ ClockSetBack
SpecUsers == InitConc /\ [][NextUsers]_vars

(***************************************************************************)
(* Properties                                                              *)
(***************************************************************************)
\* task t runs its gate in this step
GateStep(t) == tasks[t].pc = "load" /\ tasks'[t].pc # "load"

\* a direct gate call is made in this step
GateCalled == ~gate.called /\ gate'.called

\* a direct cooldown check is made in this step
CooldownCalled == cc' # cc

InFlight(tk) == tk.pc \notin {"idle", "done"}

\* C1: under any interleaving of concurrently handled messages, any two
\* admissions of one user by the cooldown check are at least watch_cooldown
\* apart (no two messages pass the cooldown gate for the same window).
C1_AdmissionsApart ==
    \A u \in UserIds :
        \A i, j \in 1..Len(admitted[u]) :
            i < j =>
                \/ admitted[u][j] - admitted[u][i] >= config.watch_cooldown
                \/ admitted[u][i] - admitted[u][j] >= config.watch_cooldown

\* two messages of one user are in flight together, the first admitted and
\* suspended, the second rejected by the cooldown check; a later one was admitted
C1_Witness ==
    \E t1, t2 \in Tasks :
        /\ t1 # t2
        /\ InFlight(tasks[t1]) /\ tasks[t1].hit
        /\ tasks[t2].pc = "done" /\ tasks[t2].reason = "User on cooldown"
        /\ tasks[t1].message.author = tasks[t2].message.author
        /\ Len(admitted[tasks[t1].message.author]) >= 2

C3_StrictIgnored ==
    [][\A t \in Tasks :
        (GateStep(t) /\ config.watch_strict_mode
                     /\ ~tasks[t].message.content.marker) =>
            /\ tasks'[t].pc = "done"
            /\ tasks'[t].replies = <<>>
            /\ tasks'[t].calls = <<>>
            /\ cooldowns' = cooldowns]_vars

\* C4 (as claimed): no exception leaves on_message, and a handler that caught
\* an exception sends at most the one generic error reply for it.
C4_NeverPropagates ==
    \A t \in Tasks :
        tasks[t].pc = "done" =>
            /\ ~tasks[t].raised
            /\ Cardinality({i \in 1..Len(tasks[t].replies) :
                               tasks[t].replies[i] = "generic"}) <= 1

\* the checks of the gate that fail for a message, from the state before the call
ModeFails == config.watch_mode = "disabled"
ChannelFails(m) ==
    config.watch_mode = "channels" /\ ~InList(m.channel, config.watch_channels)
MemberFails(m) == RolesRequired(m, config) /\ ~m.member
RoleFails(m) ==
    /\ RolesRequired(m, config)
    /\ ~HasRole(parse_allowed_roles(config.allowed_roles), m.roles)
CooldownFails(m) ==
    /\ config.watch_cooldown > 0
    /\ clock - LastUse(cooldowns, m.author) < config.watch_cooldown

\* the reason of the first failing check in the order mode, channel, member,
\* role, cooldown
FirstFailure(m) ==
    IF ModeFails THEN "Watch mode disabled"
    ELSE IF ChannelFails(m) THEN "Channel not in watch list"
    ELSE IF MemberFails(m) THEN "Member not found"
    ELSE IF RoleFails(m) THEN "Missing required role"
    ELSE IF CooldownFails(m) THEN "User on cooldown"
    ELSE "OK"

\* the name of the check that gives a reason
CheckOf(reason) ==
    CASE reason = "Watch mode disabled" -> "mode"
      [] reason = "Channel not in watch list" -> "channel"
      [] reason = "Member not found" -> "member"
      [] reason = "Missing required role" -> "role"
      [] OTHER -> "cooldown"

CheckOrder == <<"mode", "channel", "member", "role", "cooldown">>

PositionOf(check) == CHOOSE i \in 1..Len(CheckOrder) : CheckOrder[i] = check

\* the checks were evaluated in the fixed order
InOrder(checked) ==
    \A i, j \in 1..Len(checked) :
        i < j => PositionOf(checked[i]) < PositionOf(checked[j])

\* C5: the gate returns the reason of the first failing check in the order
\* mode, channel, member, role, cooldown; it admits exactly when none fails;
\* the failing check is the last one evaluated, and the cooldown check-and-set
\* does not run (the map is untouched) once an earlier check has failed.
C5_GateOrder ==
    [][GateCalled =>
        LET m == gate'.message
            early == ModeFails \/ ChannelFails(m) \/ MemberFails(m) \/ RoleFails(m)
        IN  /\ gate'.reason = FirstFailure(m)
            /\ gate'.ok <=> FirstFailure(m) = "OK"
            /\ early => /\ ~InList("cooldown", gate'.checked)
                        /\ cooldowns' = cooldowns
            /\ InOrder(gate'.checked)
            /\ gate'.checked[Len(gate'.checked)] = CheckOf(gate'.reason)]_vars

\* a message failing both the role requirement and the cooldown is rejected
\* for the role
C5_Witness ==
    /\ gate.called /\ gate.reason = "Missing required role"
    /\ config.watch_cooldown = 2
    /\ LastUse(cooldowns, gate.message.author) = gate.now

ProcessingFailed(tk) ==
    /\ tk.pc = "done"
    /\ tk.hit
    /\ \/ tk.caught
       \/ TooMany(dedupe_placeholders(tk.message.content.toks), tk.settings)
       \/ tk.placeholders # <<>> /\ tk.error_count = Len(tk.placeholders)

\* C7: a message admitted by the gate holds its author's window from the time
\* of admission, whatever becomes of its processing: the next message of that
\* author less than watch_cooldown after it is rejected as on cooldown.
C7_WindowConsumed ==
    [][\A t1, t2 \in Tasks :
        (/\ t1 # t2
         /\ GateStep(t2)
         /\ tasks[t1].pc # "idle" /\ tasks[t1].hit
         /\ tasks[t1].message.author = tasks[t2].message.author
         /\ clock - tasks[t1].at < config.watch_cooldown) =>
            /\ ~tasks'[t2].ok
            /\ tasks'[t2].reason = "User on cooldown"]_vars

\* after an admitted message whose processing failed, the next message of the
\* author is rejected as on cooldown
C7_Witness ==
    \E t1, t2 \in Tasks :
        /\ t1 # t2
        /\ ProcessingFailed(tasks[t1])
        /\ tasks[t2].pc = "done" /\ tasks[t2].reason = "User on cooldown"
        /\ tasks[t1].message.author = tasks[t2].message.author
        /\ LastUse(cooldowns, tasks[t1].message.author) = tasks[t1].at

\* C8: check_cooldown with cooldown <= 0 returns true and leaves the map as it
\* is: no entry created, none modified.
C8_DisabledUntouched ==
    [][(CooldownCalled /\ cc'.cooldown <= 0) =>
        cc'.ok /\ cooldowns' = cooldowns]_vars

\* a disabled check was made for a user without an entry while another user
\* has one, and no entry appeared
C8_Witness ==
    /\ cc.called /\ cc.cooldown <= 0 /\ cc.ok
    /\ cc.user_id \notin DOMAIN cooldowns
    /\ DOMAIN cooldowns # {}

\* C9 (as claimed): for a user without an entry and any watch_cooldown >= 0, the
\* message that reaches the cooldown check passes it.
C9_FirstMessagePasses ==
    [][(/\ GateCalled
        /\ InList("cooldown", gate'.checked)
        /\ gate'.message.author \notin DOMAIN cooldowns
        /\ config.watch_cooldown >= 0) => gate'.ok]_vars

\* C10: in mode "channels" a message is rejected with the channel reason exactly
\* when its channel is not in the allow-list, whatever its roles and cooldown,
\* and the map is untouched; in an allowed channel the gate goes on to the
\* later checks; in mode "global" the allow-list is not consulted.
C10_ChannelCheck ==
    [][GateCalled =>
        LET m == gate'.message
            listed == InList(m.channel, config.watch_channels)
        IN  /\ config.watch_mode = "channels" =>
                /\ gate'.reason = "Channel not in watch list" <=> ~listed
                /\ ~listed => ~gate'.ok /\ cooldowns' = cooldowns
                /\ listed => /\ Len(gate'.checked) > 2
                             /\ gate'.checked[2] = "channel"
                             /\ gate'.checked[Len(gate'.checked)] = "cooldown"
                                  \/ gate'.reason \in {"Member not found",
                                                       "Missing required role"}
            /\ config.watch_mode = "global" =>
                /\ ~InList("channel", gate'.checked)
                /\ gate'.reason # "Channel not in watch list"]_vars

\* in mode "channels" a message outside the allow-list is rejected although its
\* author holds the required role and is off cooldown
C10_Witness ==
    /\ gate.called /\ gate.reason = "Channel not in watch list"
    /\ config.watch_mode = "channels"
    /\ config.watch_channels = <<10>> /\ gate.message.channel = 11
    /\ config.watch_require_roles /\ config.allowed_roles = <<"5">>
    /\ gate.message.roles = {RoleAdmin}
    /\ gate.message.author \notin DOMAIN cooldowns

\* the numeric entries of allowed_roles, as numbers
NumericEntries(fields) ==
    {ToInt(StripStr(fields[i])) :
        i \in {k \in 1..Len(fields) : IsDigit(StripStr(fields[k]))}}

\* the other entries of allowed_roles, as names
NameEntries(fields) ==
    {StripStr(fields[i]) :
        i \in {k \in 1..Len(fields) : ~IsDigit(StripStr(fields[k]))}}

\* the author holds a role named by id or, whatever the letter case, by name
HoldsAllowedRole(m) ==
    \E r \in m.roles :
        \/ r.id \in NumericEntries(config.allowed_roles)
        \/ \E n \in NameEntries(config.allowed_roles) : Lower(r.name) = Lower(n)

\* C11: for a guild member's message that reaches the role check, with
\* watch_require_roles on and a non-blank allowed_roles, the gate goes on to
\* the cooldown check exactly when the author holds a role whose id is a
\* numeric entry or whose name is another entry (letter case ignored), and
\* rejects with "Missing required role" otherwise; with watch_require_roles
\* off or allowed_roles blank no message is rejected for its roles.
C11_RoleCheck ==
    [][(GateCalled /\ ~ModeFails /\ ~ChannelFails(gate'.message)
                   /\ gate'.message.guild /\ gate'.message.member) =>
        LET m == gate'.message
        IN  IF config.watch_require_roles /\ ~IsBlankString(config.allowed_roles)
            THEN /\ HoldsAllowedRole(m) <=> InList("cooldown", gate'.checked)
                 /\ ~HoldsAllowedRole(m) <=> gate'.reason = "Missing required role"
                 /\ ~HoldsAllowedRole(m) => ~gate'.ok /\ cooldowns' = cooldowns
            ELSE /\ gate'.reason \notin {"Missing required role", "Member not found"}
                 /\ ~InList("role", gate'.checked)]_vars

\* a member whose role "Admin" matches the entry " admin" of "9, admin" passed
\* the role check
C11_Witness ==
    /\ gate.called /\ gate.ok
    /\ config.watch_require_roles /\ config.allowed_roles = <<"9", " admin">>
    /\ gate.message.roles = {RoleAdmin}
    /\ InList("role", gate.checked)

\* C12: a message rejected by the gate has no chat-visible effect: its handler
\* ends at once and sends no reply, creates no thread, deletes no message and
\* issues no lookup.
C12_RejectionSilent ==
    \A t \in Tasks :
        (tasks[t].pc \notin {"idle", "load"} /\ ~Dropped(tasks[t].message)
                                             /\ ~tasks[t].ok) =>
            /\ tasks[t].pc = "done"
            /\ tasks[t].replies = <<>>
            /\ tasks[t].calls = <<>>
            /\ ~tasks[t].thread
            /\ ~tasks[t].deleted
            /\ ~tasks[t].raised

\* a message with two placeholders over the cap, errors shown, was rejected as
\* on cooldown
C12_Witness ==
    /\ tasks[1].pc = "done" /\ ~tasks[1].ok
    /\ tasks[1].reason = "User on cooldown"
    /\ Len(tasks[1].message.content.toks) = 2
    /\ config.watch_max_placeholders = 1 /\ config.watch_show_errors
    /\ ~config.watch_strict_mode

\* the tokens of a text up to letter case
UniqueKeys(text) == {Lower(text[i]) : i \in 1..Len(text)}

\* C13: in every report of the engine, success_count + error_count is the
\* number of unique tokens of the text (letter case ignored), errors has
\* error_count entries, and exactly one lookup was issued per unique token.
C13_ReportCounts ==
    eng.pc = "report" =>
        /\ eng.success_count + eng.error_count = Cardinality(UniqueKeys(eng.text))
        /\ Len(eng.errors) = eng.error_count
        /\ Len(eng.calls) = Cardinality(UniqueKeys(eng.text))
        /\ \A key \in UniqueKeys(eng.text) :
              Cardinality({k \in 1..Len(eng.calls) :
                  \E i \in 1..Len(eng.text) :
                      Lower(eng.text[i]) = key /\ eng.calls[k] = CallOf(eng.text[i])}) = 1

\* a report for a text with a repeated token, one lookup succeeding and one
\* failing, errors hidden
C13_Witness ==
    /\ eng.pc = "report"
    /\ eng.text = <<"server:online", "bogus", "server:online">>
    /\ eng.success_count = 1 /\ eng.error_count = 1
    /\ ~eng.settings.watch_show_errors

\* C14: when watch_max_placeholders > 0 and the text has more unique tokens
\* than that, the engine returns the top-level "too many placeholders" error,
\* no report, and issues no lookup; when watch_max_placeholders is 0 the cap
\* never triggers, whatever the number of tokens.
C14_Cap ==
    eng.pc # "idle" =>
        LET n == Cardinality(UniqueKeys(eng.text))
            mx == eng.settings.watch_max_placeholders
        IN  /\ (mx > 0 /\ n > mx) =>
                  eng.pc = "error" /\ eng.error = "toomany" /\ eng.calls = <<>>
            /\ mx = 0 => eng.error # "toomany"

\* with a cap of 2, a text of three unique tokens got the top-level error
C14_Witness ==
    /\ eng.pc = "error" /\ eng.error = "toomany"
    /\ eng.settings.watch_max_placeholders = 2
    /\ eng.text = <<"server:online", "bogus", "motd">>
    /\ eng.calls = <<>>

\* C15: for a text without placeholder tokens, whatever watch_max_placeholders,
\* the engine returns the top-level "no placeholders found" error, never a
\* report, and issues no lookup.
C15_NoPlaceholders ==
    (eng.pc # "idle" /\ eng.text = <<>>) =>
        /\ eng.pc = "error"
        /\ eng.error = "noplaceholders"
        /\ eng.calls = <<>>

\* with a cap of 1, a text without tokens got the top-level error
C15_Witness ==
    /\ eng.pc = "error" /\ eng.error = "noplaceholders"
    /\ eng.text = <<>>
    /\ eng.settings.watch_max_placeholders = 1

\* C16 (as claimed): in a report whose lookups all succeeded, with values
\* holding no token, no token occurrence of the original text remains in the
\* rendered text, occurrences differing only in letter case from an earlier
\* token included.
C16_AllReplaced ==
    (/\ eng.pc = "report"
     /\ eng.error_count = 0
     /\ \A k \in 1..Len(eng.results) : eng.results[k].value = "Yes") =>
        \A i, j \in 1..Len(eng.text) :
            eng.parsed_content[i] # FullMatch(eng.text[j])

\* the lookups of a call that failed, by their position in the order of calls
FailedLookups ==
    {k \in 1..Len(eng.results) : eng.results[k].kind \in {"failure", "none"}}

\* C17: with watch_show_errors off, in a report every occurrence of a token
\* whose lookup failed is still its raw text in parsed_content, while
\* error_count counts the failed lookups and errors holds one entry for each.
C17_HiddenErrorsUntouched ==
    (eng.pc = "report" /\ ~eng.settings.watch_show_errors) =>
        /\ eng.error_count = Cardinality(FailedLookups)
        /\ \A k \in FailedLookups :
              LET ph == eng.placeholders[k]
              IN  /\ \A i \in 1..Len(eng.text) :
                        eng.text[i] = ph => eng.parsed_content[i] = FullMatch(ph)
                  /\ Cardinality({e \in 1..Len(eng.errors) :
                          eng.errors[e][1] = FullMatch(ph)}) = 1

\* errors hidden: <server:online> resolved to Yes, <bogus> failed and stayed
C17_Witness ==
    /\ eng.pc = "report" /\ ~eng.settings.watch_show_errors
    /\ eng.text = <<"server:online", "bogus">>
    /\ eng.parsed_content = <<"Yes", "<bogus>">>
    /\ eng.errors = <<(<<"<bogus>", "unknown placeholder">>)>>
    /\ eng.error_count = 1

\* C18 (as claimed): with watch_show_errors on, in a report with lookups that
\* succeeded and lookups that failed, every occurrence of a token that
\* succeeded holds its resolved value and every occurrence of a token that
\* failed holds the marker with that token's failure message; success_count
\* and error_count count the two kinds of unique tokens.
C18_MixedRendering ==
    (/\ eng.pc = "report" /\ eng.settings.watch_show_errors
     /\ eng.success_count > 0 /\ eng.error_count > 0) =>
        /\ eng.error_count = Cardinality(FailedLookups)
        /\ eng.success_count = Len(eng.results) - Cardinality(FailedLookups)
        /\ \A k \in 1..Len(eng.results) :
              \A i \in 1..Len(eng.text) :
                  eng.text[i] = eng.placeholders[k] =>
                      eng.parsed_content[i] =
                          IF eng.results[k].kind = "success"
                          THEN eng.results[k].value
                          ELSE Marker(ErrorMsgOf(eng.results[k]))

\* the positions of a text where a token occurs for the first time, letter
\* case ignored
FirstPositions(text) ==
    {i \in 1..Len(text) : \A j \in 1..(i - 1) : Lower(text[j]) # Lower(text[i])}

\* the n-th smallest element of a set of numbers
Nth(S, n) == CHOOSE x \in S : Cardinality({y \in S : y < x}) = n - 1

\* the unique tokens of a text in extraction order
FirstSeen(text) ==
    [k \in 1..Cardinality(FirstPositions(text)) |-> text[Nth(FirstPositions(text), k)]]

\* C19: the lookups of one call are issued one at a time in extraction order
\* (the order of first occurrence of the unique tokens), and errors lists the
\* failing tokens in that same order.
C19_ExtractionOrder ==
    eng.pc \in {"resolve", "report", "raised"} =>
        /\ eng.calls = [k \in 1..Len(eng.calls) |-> CallOf(FirstSeen(eng.text)[k])]
        /\ eng.pc = "resolve" => Len(eng.calls) = eng.idx - 1
        /\ eng.pc = "report" => Len(eng.calls) = Len(FirstSeen(eng.text))
        /\ eng.errors =
              [e \in 1..Cardinality(FailedLookups) |->
                  <<FullMatch(FirstSeen(eng.text)[Nth(FailedLookups, e)]),
                    ErrorMsgOf(eng.results[Nth(FailedLookups, e)])>>]

\* of three tokens the first resolved and the two others failed, listed in
\* their order in the text
C19_Witness ==
    /\ eng.pc = "report"
    /\ eng.text = <<"server:online", "bogus", "motd">>
    /\ eng.success_count = 1
    /\ Len(eng.errors) = 2
    /\ eng.errors[1][1] = "<bogus>" /\ eng.errors[2][1] = "<motd>"

\* C20 (as claimed): whatever each lookup gives back (success, a dict with
\* success false, None, or a body of another shape), the engine goes on to
\* every remaining unique token and returns a report: a call that entered the
\* loop never raises, and its report follows one lookup per unique token.
C20_NeverAborts ==
    eng.pc \notin {"idle", "error"} =>
        /\ eng.pc \in {"resolve", "report"}
        /\ eng.pc = "report" => Len(eng.calls) = Cardinality(UniqueKeys(eng.text))

\* the message the engine gives a lookup that yielded no usable data
GenericMessage == "Connection failed."

\* C21 (as claimed): the lookup never raises to the engine, and a request
\* that failed in transport or whose body is not a well-formed response is
\* taken by the engine as a failed token with the generic message; a token
\* counts as resolved only on a well-formed response reporting success with
\* a string value.
C21_ResolverOutcome ==
    eng.pc \in {"resolve", "report", "raised"} =>
        /\ eng.pc # "raised"
        /\ \A k \in 1..Len(eng.responses) :
              LET response == eng.responses[k]
                  wellformed == /\ response.transport = "ok"
                                /\ response.body.kind \in {"success", "failure"}
              IN  /\ ~wellformed =>
                        \E e \in 1..Len(eng.errors) :
                            eng.errors[e] =
                                <<FullMatch(eng.placeholders[k]), GenericMessage>>
                  /\ eng.results[k].kind = "success" =>
                        wellformed /\ response.body.kind = "success"

\* C22 (as claimed): the message recorded for a failed lookup is the error
\* field of the response when it carries one, and the generic "connection
\* failed" string otherwise, for a transport failure as for a failure
\* response without an error field.
C22_FailureMessage ==
    eng.pc \in {"resolve", "report"} =>
        \A e \in 1..Len(eng.errors) :
            LET result == eng.results[Nth(FailedLookups, e)]
            IN  eng.errors[e][2] =
                    IF result.haserr THEN result.error ELSE GenericMessage

\* the token has a subject: text before its first colon
HasSubject(ph) == HasColon(ph) /\ ContextOf(ph) # ""

\* C23: the request of every token carries the key after the first colon, or
\* the whole token when it has no colon, and carries the subject as player
\* exactly when the token has a subject that is not "server" in any letter
\* case; otherwise no player parameter is sent.
C23_RequestParams ==
    eng.pc \in {"resolve", "report", "raised"} =>
        \A k \in 1..Len(eng.requests) :
            LET ph == FirstSeen(eng.text)[k]
                params == eng.requests[k]
                named == HasSubject(ph) /\ Lower(ContextOf(ph)) # "server"
            IN  /\ params.placeholder = IF HasColon(ph) THEN PlaceholderOf(ph) ELSE ph
                /\ "player" \in DOMAIN params <=> named
                /\ named => params.player = ContextOf(ph)

\* <steve:health> was sent with player steve, <SERVER:tps> without a player
C23_Witness ==
    /\ eng.pc = "report"
    /\ eng.text = <<"steve:health", "SERVER:tps">>
    /\ eng.requests = <<[placeholder |-> "health", player |-> "steve"],
                        [placeholder |-> "tps"]>>

\* C24: the result of dedupe_placeholders holds no two elements equal up to
\* letter case, is the subsequence of the input made of the first-seen element
\* of each class, in its original casing and in first-occurrence order, and
\* deduping it again returns it unchanged.
C24_DedupeStable ==
    fn.name = "dedupe" =>
        /\ \A i, j \in 1..Len(fn.output) :
              i < j => Lower(fn.output[i]) # Lower(fn.output[j])
        /\ fn.output = FirstSeen(fn.input)
        /\ dedupe_placeholders(fn.output) = fn.output

\* a list whose classes interleave in both casings
C24_Witness ==
    /\ fn.name = "dedupe"
    /\ fn.input = <<"Server:Online", "bogus", "server:online", "Bogus">>
    /\ fn.output = <<"Server:Online", "bogus">>

\* the message of a task passed the gate and strict mode with more unique
\* tokens than a positive cap
OverCap(tk) ==
    /\ tk.pc \notin {"idle", "load"}
    /\ tk.ok
    /\ ~StrictSkip(tk.message, tk.settings)
    /\ tk.settings.watch_max_placeholders > 0
    /\ Cardinality(UniqueKeys(tk.message.content.toks))
           > tk.settings.watch_max_placeholders

\* C25: in the pre-filter of on_message, a message with more unique tokens
\* than a positive cap ends the handler without any lookup, thread or delete;
\* the "too many placeholders" notice is issued exactly when
\* watch_show_errors is on, and nothing else is sent.
C25_PreFilter ==
    \A t \in Tasks :
        OverCap(tasks[t]) =>
            /\ tasks[t].calls = <<>>
            /\ ~tasks[t].thread /\ ~tasks[t].deleted
            /\ IF tasks[t].settings.watch_show_errors
               THEN \/ tasks[t].pc = "notice" /\ tasks[t].replies = <<>>
                    \/ tasks[t].pc = "done" /\ tasks[t].replies = <<"toomany">>
                    \/ tasks[t].pc = "done" /\ tasks[t].raised
               ELSE tasks[t].pc = "done" /\ tasks[t].replies = <<>>

\* the notice was delivered for a message of two tokens under a cap of one
C25_Witness ==
    /\ OverCap(tasks[1])
    /\ tasks[1].pc = "done"
    /\ tasks[1].replies = <<"toomany">>
    /\ Len(tasks[1].message.content.toks) = 2

\* C26 (as claimed): the trigger message is deleted, and its deletion
\* attempted, only with watch_delete_trigger on and after the success reply
\* was dispatched; a deletion that fails is swallowed, so nothing is sent
\* after the success reply.
C26_DeleteAfterSuccess ==
    \A t \in Tasks :
        tasks[t].pc \notin {"idle", "load"} =>
            /\ (tasks[t].deleted \/ tasks[t].pc = "delete") =>
                  /\ tasks[t].settings.watch_delete_trigger
                  /\ tasks[t].replies = <<"success">>
            /\ \A i \in 1..Len(tasks[t].replies) :
                  tasks[t].replies[i] = "success" => i = Len(tasks[t].replies)

\* the smaller of two numbers
Min(a, b) == IF a < b THEN a ELSE b

\* C27: the success reply holds the Errors field exactly when
\* watch_show_errors is on and error_count > 0; the field then shows
\* min(5, error_count) lines, the first entries of errors in their order, and
\* the truncation note, reporting error_count - 5, exactly when
\* error_count > 5.
C27_ErrorsField ==
    fn.name = "compose" =>
        LET n == fn.result.error_count
            embed == fn.embed
        IN  /\ embed.has_errors_field <=> (fn.settings.watch_show_errors /\ n > 0)
            /\ embed.has_errors_field =>
                  /\ Len(embed.lines) = Min(5, n)
                  /\ \A i \in 1..Len(embed.lines) : embed.lines[i] = fn.result.errors[i]
                  /\ embed.note <=> n > 5
                  /\ embed.note => embed.more = n - 5
            /\ ~embed.has_errors_field => embed.lines = <<>> /\ ~embed.note

\* a report with seven failures: five lines and a note of two more
C27_Witness ==
    /\ fn.name = "compose"
    /\ fn.result.error_count = 7
    /\ fn.embed.has_errors_field
    /\ Len(fn.embed.lines) = 5
    /\ fn.embed.note /\ fn.embed.more = 2

\* task t holds its settings and takes a step
StepAfterLoad(t) ==
    /\ tasks[t].pc \notin {"idle", "load", "done"}
    /\ tasks'[t] # tasks[t]

\* C28: the settings of a message are those read once when its handler
\* starts: a command that changes the stored settings leaves every task as it
\* is, and each later step of the task follows the task's own settings, for
\* showing errors, for the reply type and for deleting the trigger, whatever
\* the stored settings have become.
C28_Snapshot ==
    [][/\ config' # config => tasks' = tasks
       /\ \A t \in Tasks :
            StepAfterLoad(t) =>
                LET tk == tasks[t]
                    tk1 == tasks'[t]
                    mine == tk.settings
                IN  /\ tk1.settings = mine
                    /\ (tk.pc = "resolve" /\ tk1.error_count > tk.error_count) =>
                          (tk1.parsed_content # tk.parsed_content
                              <=> mine.watch_show_errors)
                    /\ (tk.pc = "resolve" /\ tk1.pc \notin {"resolve", "errreply"}) =>
                          tk1.pc = IF mine.watch_reply_type = "thread"
                                   THEN "thread" ELSE "reply"
                    /\ (tk.pc \in {"reply", "tsend"} /\ tk1.replies # tk.replies) =>
                          tk1.pc = IF mine.watch_delete_trigger
                                   THEN "delete" ELSE "done"]_vars

\* a message read inline replies and delete on; both settings were changed
\* while it was handled, and it was still answered inline and is being deleted
C28_Witness ==
    /\ tasks[1].pc = "delete"
    /\ tasks[1].settings.watch_reply_type = "reply"
    /\ tasks[1].settings.watch_delete_trigger
    /\ config.watch_reply_type = "thread"
    /\ ~config.watch_delete_trigger
    /\ ~tasks[1].thread
    /\ tasks[1].replies = <<"success">>

\* C29: while a handler is suspended in a lookup, any other task can take its
\* next step, a new message included, whoever its author is; a step of one
\* task changes no other task, and only the gate step of a task touches the
\* cooldown map, the one state the tasks share.
C29_NoBlocking ==
    /\ [](\A t1, t2 \in Tasks :
            (t1 # t2 /\ tasks[t1].pc = "resolve") =>
                IF tasks[t2].pc = "idle"
                THEN ENABLED Start(t2, UserMessages)
                ELSE ENABLED HandleInline(t2))
    /\ [][\A t1, t2 \in Tasks :
            (t1 # t2 /\ tasks'[t2] # tasks[t2]) =>
                /\ tasks'[t1] = tasks[t1]
                /\ tasks[t2].pc # "load" =>
                      cooldowns' = cooldowns /\ admitted' = admitted]_vars

\* the first message, admitted first, is still suspended in its lookup while
\* a later message of another user has been answered
C29_Witness ==
    \E t1, t2 \in Tasks :
        /\ t1 # t2
        /\ tasks[t1].pc = "resolve" /\ tasks[t1].hit /\ tasks[t1].calls = <<>>
        /\ tasks[t2].pc = "done" /\ tasks[t2].hit
        /\ tasks[t2].replies = <<"success">>
        /\ tasks[t1].message.author # tasks[t2].message.author
        /\ tasks[t1].at < tasks[t2].at

\* C30: the gate call for a message of one user leaves the entry of every
\* other user as it is, present or absent, and its verdict follows from the
\* author's own last use alone: what other users were admitted or refused
\* does not change whether this message is admitted.
C30_UsersIndependent ==
    [][GateCalled =>
        LET m == gate'.message
        IN  /\ \A b \in UserIds \ {m.author} :
                  /\ b \in DOMAIN cooldowns' <=> b \in DOMAIN cooldowns
                  /\ b \in DOMAIN cooldowns => cooldowns'[b] = cooldowns[b]
            /\ gate'.ok <=> FirstFailure(m) = "OK"
            /\ gate'.reason = "User on cooldown" <=>
                  (FirstFailure(m) = "User on cooldown")]_vars

\* user 2 is admitted one second after user 1, inside user 1's window
C30_Witness ==
    /\ gate.called /\ gate.ok
    /\ gate.message.author = 2
    /\ config.watch_cooldown = 2
    /\ 1 \in DOMAIN cooldowns /\ 2 \in DOMAIN cooldowns
    /\ cooldowns[1] = gate.now - 1
    /\ cooldowns[2] = gate.now

\* on_message with the cap test of the pre-filter (lines 209-216) removed: the
\* cap is left to the engine, whose top-level error on_message replies with
AfterGateWithoutPreFilter(message, settings, ok) ==
    IF ~ok THEN "done"
    ELSE IF message.content.toks = <<>> THEN "done"
    ELSE IF EngineEntry(message.content.toks, settings) = "loop"
         THEN "resolve" ELSE "toperr"

\* on_message with the cap test of the engine (lines 65-70) removed
AfterGateWithoutEngineCap(message, settings, ok) ==
    IF ~ok THEN "done"
    ELSE IF message.content.toks = <<>> THEN "done"
    ELSE IF TooMany(dedupe_placeholders(message.content.toks), settings)
         THEN IF settings.watch_show_errors THEN "notice" ELSE "done"
         ELSE IF dedupe_placeholders(message.content.toks) # <<>>
              THEN "resolve" ELSE "toperr"

\* C31 (as claimed): through on_message the two cap tests are redundant: with
\* either of them removed, every message under every setting goes on from the
\* gate as it does now (same reply or silence, same lookups), with errors
\* hidden and in strict mode as well.
C31_CapChecksRedundant ==
    [][\A t \in Tasks :
        (GateStep(t) /\ ~StrictSkip(tasks[t].message, config)) =>
            /\ tasks'[t].pc =
                  AfterGateWithoutEngineCap(tasks[t].message, config, tasks'[t].ok)
            /\ tasks'[t].pc =
                  AfterGateWithoutPreFilter(tasks[t].message, config, tasks'[t].ok)]_vars

\* C32 (as claimed): a message gets at most one chat-visible reply (pre-filter
\* notice, error reply, success reply or generic error reply), whatever the
\* lookups return and whichever of reply, thread creation and delete fails.
C32_AtMostOneReply ==
    \A t \in Tasks : tasks[t].pc # "idle" => Len(tasks[t].replies) <= 1

\* C33: a gate-admitted message whose text holds no placeholder token ends
\* silently, with no reply of any kind and no resolver call, and on_message
\* never reaches one of the engine's top-level error returns (neither "no
\* placeholders found" nor "too many placeholders detected").
C33_NoTokenSilent ==
    \A t \in Tasks :
        tasks[t].pc # "idle" =>
            /\ tasks[t].pc # "toperr"
            /\ \A i \in 1..Len(tasks[t].replies) : tasks[t].replies[i] # "error"
            /\ (tasks[t].ok /\ tasks[t].message.content.toks = <<>>) =>
                  /\ tasks[t].pc = "done"
                  /\ tasks[t].replies = <<>>
                  /\ tasks[t].calls = <<>>

\* a message without placeholders passed the gate, which recorded the use
C33_Witness ==
    \E t \in Tasks :
        /\ tasks[t].pc = "done"
        /\ tasks[t].ok
        /\ tasks[t].hit
        /\ ~tasks[t].message.content.empty
        /\ tasks[t].message.content.toks = <<>>
        /\ tasks[t].replies = <<>>

\* the messages C34 is about
FromBotOrDirectOrEmpty(m) == m.bot \/ ~m.guild \/ m.content.empty

\* C34: a message written by a bot, sent outside a guild or with empty
\* content is dropped before the gate: the settings are not read, no reply
\* is sent, no lookup is made and the cooldown map stays as it was.
C34_DroppedEarly ==
    /\ [](\A t \in Tasks :
            (tasks[t].pc # "idle" /\ FromBotOrDirectOrEmpty(tasks[t].message)) =>
                /\ tasks[t].pc = "done"
                /\ tasks[t].settings = NoSettings
                /\ ~tasks[t].ok /\ ~tasks[t].hit
                /\ tasks[t].replies = <<>>
                /\ tasks[t].calls = <<>>)
    /\ [][\A t \in Tasks :
            (tasks'[t] # tasks[t]
               /\ \/ tasks[t].pc # "idle" /\ FromBotOrDirectOrEmpty(tasks[t].message)
                  \/ tasks'[t].pc # "idle" /\ FromBotOrDirectOrEmpty(tasks'[t].message)) =>
                /\ cooldowns' = cooldowns
                /\ admitted' = admitted]_vars

\* a bot's message with a placeholder was dropped while watching is on for
\* every channel
C34_Witness ==
    \E t \in Tasks :
        /\ tasks[t].pc = "done"
        /\ tasks[t].message.bot
        /\ tasks[t].message.content.toks # <<>>
        /\ config.watch_mode = "global"
        /\ tasks[t].settings = NoSettings

\* C35: after any sequence of enable, disable and mode commands from the
\* defaults, watch_enabled is true exactly when watch_mode is not "disabled"
\* and watch_mode is one of disabled, channels, global; "enable" while the
\* mode is "disabled" and "mode" with a value that is neither channels nor
\* global leave both settings as they were.
C35_EnabledIffMode ==
    /\ [](/\ config.watch_enabled <=> config.watch_mode # "disabled"
          /\ config.watch_mode \in {"disabled", "channels", "global"})
    /\ [][/\ (cmd' # cmd /\ cmd'.name = "enable" /\ config.watch_mode = "disabled") =>
               /\ config'.watch_enabled = config.watch_enabled
               /\ config'.watch_mode = config.watch_mode
          /\ (cmd' # cmd /\ cmd'.name = "mode"
                 /\ cmd'.arg \notin {"channels", "global", "GLOBAL"}) =>
               /\ config'.watch_enabled = config.watch_enabled
               /\ config'.watch_mode = config.watch_mode]_vars

\* "enable" has just been refused: the mode is "disabled" and watching stays
\* off (a channel was added before)
C35_Witness ==
    /\ cmd.name = "enable"
    /\ cmd.sent = "Please set watch mode first"
    /\ ~config.watch_enabled
    /\ config.watch_channels # <<>>

\* C36: after any sequence of configuration commands the cooldown and the
\* cap are at least 0 and the reply type is reply or thread; a negative
\* number or an unknown reply type is refused and leaves the stored setting
\* as it was.
C36_ValidatedSettings ==
    /\ [](/\ config.watch_cooldown >= 0
          /\ config.watch_max_placeholders >= 0
          /\ config.watch_reply_type \in {"reply", "thread"})
    /\ [][/\ (cmd' # cmd /\ cmd'.name \in {"cooldown", "maxplaceholders"}
                 /\ cmd'.arg < 0) =>
               (config' = config /\ cmd'.sent \in {"Cooldown must be 0 or greater",
                                                    "Max must be 0 or higher"})
          /\ (cmd' # cmd /\ cmd'.name = "replytype"
                 /\ cmd'.arg \notin {"reply", "thread", "Thread"}) =>
               (config' = config /\ cmd'.sent = "Invalid type")]_vars

\* a negative cap was refused after the cap had been set to 1
C36_Witness ==
    /\ cmd.name = "maxplaceholders"
    /\ cmd.arg < 0
    /\ config.watch_max_placeholders = 1
    /\ config.watch_reply_type = "thread"

\* C37: after any sequence of addchannel and removechannel commands, each
\* run to its end, no id is twice in watch_channels; adding an id that is in
\* the list and removing one that is not leave the list as it was; after an
\* add that stored the list the id is in it, after a remove that stored it
\* the id is not.
C37_ChannelList ==
    /\ [](\A i, j \in 1..Len(config.watch_channels) :
             config.watch_channels[i] = config.watch_channels[j] => i = j)
    /\ [][/\ (cmd' # cmd /\ cmd'.name = "addchannel") =>
               /\ InList(cmd'.arg, config.watch_channels) =>
                     config'.watch_channels = config.watch_channels
               /\ InList(cmd'.arg, config'.watch_channels)
          /\ (cmd' # cmd /\ cmd'.name = "removechannel") =>
               /\ ~InList(cmd'.arg, config.watch_channels) =>
                     config'.watch_channels = config.watch_channels
               /\ ~InList(cmd'.arg, config'.watch_channels)]_vars

\* the first of two listed channels has been removed
C37_Witness ==
    /\ cmd.name = "removechannel"
    /\ cmd.arg = 10
    /\ ~cmd.raised
    /\ config.watch_channels = <<11>>

\* C38 (as claimed): with strict mode off the listener's on_message and the
\* cog's own on_message are observationally equivalent; in particular, on
\* the same message, settings, clock and cooldown map their gates take the
\* same decision for the same reason and leave the same cooldown map.
C38_SameGateDecision ==
    [][GateCalled =>
        LET r == PAPI_should_process_watch(cooldowns, gate'.message, config, clock)
        IN  /\ ~r.raised
            /\ r.result.ok = gate'.ok
            /\ r.result.reason = gate'.reason
            /\ r.result.cooldowns = cooldowns']_vars

\* the message is gone, or the handler has asked for its deletion
Gone == ~cmd.exists \/ cmd.delete_called

\* the delay of the message is over and its handler has ended
Due ==
    /\ cmd.name = "temp_message"
    /\ cmd.keep_message /\ cmd.delete_after > 0
    /\ cmd.waited >= cmd.delete_after
    /\ cmd.pc = "ended"

\* C39 (as claimed): a temporary message sent with keep_message and a
\* positive delete_after is, once the delay is over, deleted exactly when the
\* command author has not added the pin reaction; when the bot is forbidden
\* to add its own pin reaction the message is deleted after the delay whatever
\* the author did; and no failure of adding a reaction or of deleting leaves
\* the handler as an exception.
C39_KeepOrDelete ==
    /\ cmd.name = "temp_message" => ~cmd.raised
    /\ Due =>
          IF cmd.add = "forbidden" THEN Gone
          ELSE (Gone <=> ~cmd.pinned)

====
